---- MODULE Spec2Model ----
(***************************************************************************)
(* Signed-request pipeline of the Bitcoin.de Trading API v4 client         *)
(* (TradingApiSdkV4::do_request, build_url_path, generate_signature), its  *)
(* typed wrappers, and the two binaries that use it: the backend           *)
(* (backend/main.rs, backend/handler.rs) and the command line (main.rs,    *)
(* csv_util.rs).                                                           *)
(*                                                                         *)
(* Text.  A Rust string is modelled as a sequence of atoms.  An atom is    *)
(* either one character that some conversion treats specially (" ", "?",   *)
(* "&", "=", "/", ":", ",", a line feed) or a chunk of characters that the *)
(* encodings of this module copy unchanged (ASCII letters, digits, "-",    *)
(* ".", "_"); the case conversions work on whole chunks.  Flat(t) is the   *)
(* string itself.  A path segment ":name" of the registry is the text      *)
(* <<":", "name">>.  Parameter names are plain strings; StrBytes gives     *)
(* their bytes for the byte-wise comparison of str.                        *)
(*                                                                         *)
(* Specifications.  Spec: one caller makes do_request calls one after the  *)
(* other.  SpecConcurrent: two tasks call do_request on the shared client. *)
(* SpecBackend: the backend serves GET requests.  SpecCli: the command     *)
(* line runs with --showrates.                                             *)
(***************************************************************************)
EXTENDS Integers, Sequences, FiniteSets, TLC

VARIABLES api_credentials, clock, call, transmitted_nonce, backend, cli,
          from_str_call, csv

vars == <<api_credentials, clock, call, transmitted_nonce, backend, cli,
          from_str_call, csv>>

(***************************************************************************)
(* Bounds of the model.                                                    *)
(***************************************************************************)
MaxClock == 10

\* the largest number of entries of a parameter bag
MaxBag == 3

\* the largest number of items of a comma-separated command line argument
MaxItems == 2

\* the largest number of rows of one write_to_csv call, and of calls
MaxRows == 2

MaxWrites == 3

\* the two call slots of one shared client
Calls == {1, 2}

\* Option<T>: None is <<>>, Some(x) is <<x>>
None == <<>>
Some(x) == <<x>>

(***************************************************************************)
(* Strings                                                                 *)
(***************************************************************************)
RECURSIVE Flat(_)
Flat(t) == IF t = <<>> THEN "" ELSE Head(t) \o Flat(Tail(t))

RECURSIVE Join(_, _)
Join(strs, sep) ==
  IF strs = <<>> THEN ""
  ELSE IF Len(strs) = 1 THEN strs[1]
  ELSE strs[1] \o sep \o Join(Tail(strs), sep)

\* str::as_bytes for the parameter names of the model
StrBytes ==
     ("order_id" :> <<111, 114, 100, 101, 114, 95, 105, 100>>)
  @@ ("price" :> <<112, 114, 105, 99, 101>>)
  @@ ("trading_pair" :> <<116, 114, 97, 100, 105, 110, 103, 95, 112, 97, 105, 114>>)
  @@ ("type" :> <<116, 121, 112, 101>>)

\* Ord for str: lexicographic comparison of the bytes
RECURSIVE BytesLess(_, _)
BytesLess(a, b) ==
  IF b = <<>> THEN FALSE
  ELSE IF a = <<>> THEN TRUE
  ELSE IF Head(a) # Head(b) THEN Head(a) < Head(b)
  ELSE BytesLess(Tail(a), Tail(b))

StrLess(a, b) == BytesLess(StrBytes[a], StrBytes[b])

\* u128::to_string for a non-negative number
Digit == <<"0", "1", "2", "3", "4", "5", "6", "7", "8", "9">>

RECURSIVE to_string(_)
to_string(n) == IF n < 10 THEN Digit[n + 1] ELSE to_string(n \div 10) \o Digit[(n % 10) + 1]

\* str::to_uppercase on the verbs of the registry
to_uppercase(s) ==
  CASE s \in {"GET", "get"} -> "GET"
    [] s \in {"POST", "post"} -> "POST"
    [] s \in {"DELETE", "delete"} -> "DELETE"
    [] OTHER -> s

(***************************************************************************)
(* application/x-www-form-urlencoded (serde_urlencoded::to_string)         *)
(***************************************************************************)
\* form_urlencoded::byte_serialize of one atom
FormEscape ==
     (" " :> "+") @@ ("?" :> "%3F") @@ ("&" :> "%26") @@ ("=" :> "%3D")
  @@ ("/" :> "%2F") @@ (":" :> "%3A") @@ ("\n" :> "%0A")

byte_serialize(atom) == IF atom \in DOMAIN FormEscape THEN FormEscape[atom] ELSE atom

FormEncodeText(t) == [i \in 1..Len(t) |-> byte_serialize(t[i])]

\* pairs: a sequence of <<name, value>>, serialized in the order given;
\* the result is a text whose atoms are chunks, "+", "%XX", "=" and "&"
RECURSIVE serde_urlencoded_to_string(_)
serde_urlencoded_to_string(pairs) ==
  IF pairs = <<>> THEN <<>>
  ELSE LET p == Head(pairs)
           kv == <<byte_serialize(p[1]), "=">> \o FormEncodeText(p[2])
       IN IF Len(pairs) = 1 THEN kv
          ELSE kv \o <<"&">> \o serde_urlencoded_to_string(Tail(pairs))

(***************************************************************************)
(* HashMap<&'static str, String>: a function from names to texts.  The     *)
(* order in which a HashMap is iterated is not specified; it is fixed for  *)
(* a map that is not modified.  iter(map, order) is the iteration of map   *)
(* in the order `order`, a sequence that lists every key once.             *)
(***************************************************************************)
EmptyMap == <<>>

IsOrderOf(order, keys) ==
  /\ Len(order) = Cardinality(keys)
  /\ {order[i] : i \in 1..Len(order)} = keys

Orders(keys) ==
  {o \in [1..Cardinality(keys) -> keys] : IsOrderOf(o, keys)}

iter(map, order) == [i \in 1..Len(order) |-> <<order[i], map[order[i]]>>]

\* a lookup that falls back to some entry of the map when the key is absent
get_or_any(map, key) ==
  IF key \in DOMAIN map THEN Some(map[key]) ELSE Some(map[CHOOSE k \in DOMAIN map : TRUE])

\* HashMap::get
get(map, key) == IF key \in DOMAIN map THEN Some(map[key]) ELSE None

remove(map, key) == [k \in (DOMAIN map) \ {key} |-> map[k]]

\* an insertion that puts the new pair first, whatever its name
InsertSorted_front(sorted, p) == <<p>> \o sorted

\* slice::sort_by_key on the name: a stable insertion sort
RECURSIVE InsertSorted(_, _)
InsertSorted(sorted, p) ==
  IF sorted = <<>> THEN <<p>>
  ELSE IF StrLess(p[1], Head(sorted)[1]) THEN <<p>> \o sorted
  ELSE <<Head(sorted)>> \o InsertSorted(Tail(sorted), p)

\* no sorting: the pairs stay in iteration order
sort_by_key_none(pairs) == pairs

RECURSIVE sort_by_key(_)
sort_by_key(pairs) ==
  IF pairs = <<>> THEN <<>>
  ELSE InsertSorted(sort_by_key(SubSeq(pairs, 1, Len(pairs) - 1)), pairs[Len(pairs)])

(***************************************************************************)
(* The method registry                                                     *)
(***************************************************************************)
METHOD_SETTINGS ==
  ("showOrderbook" :> [http_method |-> "GET",
      path_segments |-> <<<<":", "trading_pair">>, <<"orderbook">>>>,
      trading_pair_parameter |-> <<"trading_pair">>, currency_parameter |-> <<>>,
      parameters |-> <<"type">>, id_parameter |-> <<>>])
  @@ ("showOrderDetails" :> [http_method |-> "GET",
      path_segments |-> <<<<":", "trading_pair">>, <<"orders">>, <<"public">>, <<"details">>, <<":", "order_id">>>>,
      trading_pair_parameter |-> <<"trading_pair">>, currency_parameter |-> <<>>,
      parameters |-> <<>>, id_parameter |-> <<"order_id">>])
  @@ ("createOrder" :> [http_method |-> "POST",
      path_segments |-> <<<<":", "trading_pair">>, <<"orders">>>>,
      trading_pair_parameter |-> <<"trading_pair">>, currency_parameter |-> <<>>,
      parameters |-> <<"type", "max_amount_currency_to_trade", "price">>, id_parameter |-> <<>>])
  @@ ("deleteOrder" :> [http_method |-> "DELETE",
      path_segments |-> <<<<":", "trading_pair">>, <<"orders">>, <<":", "order_id">>>>,
      trading_pair_parameter |-> <<"trading_pair">>, currency_parameter |-> <<>>,
      parameters |-> <<>>, id_parameter |-> <<"order_id">>])
  @@ ("showMyOrders" :> [http_method |-> "GET",
      path_segments |-> <<<<":", "trading_pair">>, <<"orders">>>>,
      trading_pair_parameter |-> <<"trading_pair">>, currency_parameter |-> <<>>,
      parameters |-> <<>>, id_parameter |-> <<>>])
  @@ ("showMyOrderDetails" :> [http_method |-> "GET",
      path_segments |-> <<<<":", "trading_pair">>, <<"orders">>, <<":", "order_id">>>>,
      trading_pair_parameter |-> <<"trading_pair">>, currency_parameter |-> <<>>,
      parameters |-> <<>>, id_parameter |-> <<"order_id">>])
  @@ ("executeTrade" :> [http_method |-> "POST",
      path_segments |-> <<<<":", "trading_pair">>, <<"trades">>, <<":", "order_id">>>>,
      trading_pair_parameter |-> <<"trading_pair">>, currency_parameter |-> <<>>,
      parameters |-> <<"type", "amount_currency_to_trade">>, id_parameter |-> <<"order_id">>])
  @@ ("showMyTrades" :> [http_method |-> "GET",
      path_segments |-> <<<<":", "trading_pair">>, <<"trades">>>>,
      trading_pair_parameter |-> <<"trading_pair">>, currency_parameter |-> <<>>,
      parameters |-> <<>>, id_parameter |-> <<>>])
  @@ ("showMyTradeDetails" :> [http_method |-> "GET",
      path_segments |-> <<<<":", "trading_pair">>, <<"trades">>, <<":", "trade_id">>>>,
      trading_pair_parameter |-> <<"trading_pair">>, currency_parameter |-> <<>>,
      parameters |-> <<>>, id_parameter |-> <<"trade_id">>])
  @@ ("markTradeAsPaid" :> [http_method |-> "POST",
      path_segments |-> <<<<":", "trading_pair">>, <<"trades">>, <<":", "trade_id">>, <<"mark_trade_as_paid">>>>,
      trading_pair_parameter |-> <<"trading_pair">>, currency_parameter |-> <<>>,
      parameters |-> <<"volume_currency_to_pay_after_fee">>, id_parameter |-> <<"trade_id">>])
  @@ ("markTradeAsPaymentReceived" :> [http_method |-> "POST",
      path_segments |-> <<<<":", "trading_pair">>, <<"trades">>, <<":", "trade_id">>, <<"mark_trade_as_payment_received">>>>,
      trading_pair_parameter |-> <<"trading_pair">>, currency_parameter |-> <<>>,
      parameters |-> <<"volume_currency_to_pay_after_fee", "rating", "is_paid_from_correct_bank_account">>, id_parameter |-> <<"trade_id">>])
  @@ ("addTradeRating" :> [http_method |-> "POST",
      path_segments |-> <<<<":", "trading_pair">>, <<"trades">>, <<":", "trade_id">>, <<"add_trade_rating">>>>,
      trading_pair_parameter |-> <<"trading_pair">>, currency_parameter |-> <<>>,
      parameters |-> <<"rating">>, id_parameter |-> <<"trade_id">>])
  @@ ("showAccountInfo" :> [http_method |-> "GET",
      path_segments |-> <<<<"account">>>>,
      trading_pair_parameter |-> <<>>, currency_parameter |-> <<>>,
      parameters |-> <<>>, id_parameter |-> <<>>])
  @@ ("showAccountLedger" :> [http_method |-> "GET",
      path_segments |-> <<<<":", "currency">>, <<"account">>, <<"ledger">>>>,
      trading_pair_parameter |-> <<>>, currency_parameter |-> <<"currency">>,
      parameters |-> <<>>, id_parameter |-> <<>>])
  @@ ("showPermissions" :> [http_method |-> "GET",
      path_segments |-> <<<<"permissions">>>>,
      trading_pair_parameter |-> <<>>, currency_parameter |-> <<>>,
      parameters |-> <<>>, id_parameter |-> <<>>])
  @@ ("createWithdrawal" :> [http_method |-> "POST",
      path_segments |-> <<<<":", "currency">>, <<"withdrawals">>>>,
      trading_pair_parameter |-> <<>>, currency_parameter |-> <<"currency">>,
      parameters |-> <<"amount", "address", "network_fee">>, id_parameter |-> <<>>])
  @@ ("deleteWithdrawal" :> [http_method |-> "DELETE",
      path_segments |-> <<<<":", "currency">>, <<"withdrawals">>, <<":", "withdrawal_id">>>>,
      trading_pair_parameter |-> <<>>, currency_parameter |-> <<"currency">>,
      parameters |-> <<>>, id_parameter |-> <<"withdrawal_id">>])
  @@ ("showWithdrawal" :> [http_method |-> "GET",
      path_segments |-> <<<<":", "currency">>, <<"withdrawals">>, <<":", "withdrawal_id">>>>,
      trading_pair_parameter |-> <<>>, currency_parameter |-> <<"currency">>,
      parameters |-> <<>>, id_parameter |-> <<"withdrawal_id">>])
  @@ ("showWithdrawalMinNetworkFee" :> [http_method |-> "GET",
      path_segments |-> <<<<":", "currency">>, <<"withdrawals">>, <<"min_network_fee">>>>,
      trading_pair_parameter |-> <<>>, currency_parameter |-> <<"currency">>,
      parameters |-> <<>>, id_parameter |-> <<>>])
  @@ ("showWithdrawals" :> [http_method |-> "GET",
      path_segments |-> <<<<":", "currency">>, <<"withdrawals">>>>,
      trading_pair_parameter |-> <<>>, currency_parameter |-> <<"currency">>,
      parameters |-> <<>>, id_parameter |-> <<>>])
  @@ ("showOutgoingAddresses" :> [http_method |-> "GET",
      path_segments |-> <<<<":", "currency">>, <<"outgoing_address">>>>,
      trading_pair_parameter |-> <<>>, currency_parameter |-> <<"currency">>,
      parameters |-> <<>>, id_parameter |-> <<>>])
  @@ ("requestDepositAddress" :> [http_method |-> "POST",
      path_segments |-> <<<<":", "currency">>, <<"deposits">>, <<"new_address">>>>,
      trading_pair_parameter |-> <<>>, currency_parameter |-> <<"currency">>,
      parameters |-> <<>>, id_parameter |-> <<>>])
  @@ ("showDeposit" :> [http_method |-> "GET",
      path_segments |-> <<<<":", "currency">>, <<"deposits">>, <<":", "deposit_id">>>>,
      trading_pair_parameter |-> <<>>, currency_parameter |-> <<"currency">>,
      parameters |-> <<>>, id_parameter |-> <<"deposit_id">>])
  @@ ("showDeposits" :> [http_method |-> "GET",
      path_segments |-> <<<<":", "currency">>, <<"deposits">>>>,
      trading_pair_parameter |-> <<>>, currency_parameter |-> <<"currency">>,
      parameters |-> <<>>, id_parameter |-> <<>>])
  @@ ("showOrderbookCompact" :> [http_method |-> "GET",
      path_segments |-> <<<<":", "trading_pair">>, <<"orderbook">>, <<"compact">>>>,
      trading_pair_parameter |-> <<"trading_pair">>, currency_parameter |-> <<>>,
      parameters |-> <<>>, id_parameter |-> <<>>])
  @@ ("showPublicTradeHistory" :> [http_method |-> "GET",
      path_segments |-> <<<<":", "trading_pair">>, <<"trades">>, <<"history">>>>,
      trading_pair_parameter |-> <<"trading_pair">>, currency_parameter |-> <<>>,
      parameters |-> <<>>, id_parameter |-> <<>>])
  @@ ("showRates" :> [http_method |-> "GET",
      path_segments |-> <<<<":", "trading_pair">>, <<"rates">>>>,
      trading_pair_parameter |-> <<"trading_pair">>, currency_parameter |-> <<>>,
      parameters |-> <<>>, id_parameter |-> <<>>])
  @@ ("addToAddressPool" :> [http_method |-> "POST",
      path_segments |-> <<<<":", "currency">>, <<"address_pool">>>>,
      trading_pair_parameter |-> <<>>, currency_parameter |-> <<"currency">>,
      parameters |-> <<"address">>, id_parameter |-> <<>>])
  @@ ("removeFromAddressPool" :> [http_method |-> "DELETE",
      path_segments |-> <<<<":", "currency">>, <<"address_pool">>, <<":", "address">>>>,
      trading_pair_parameter |-> <<>>, currency_parameter |-> <<"currency">>,
      parameters |-> <<>>, id_parameter |-> <<"address">>])
  @@ ("listAddressPool" :> [http_method |-> "GET",
      path_segments |-> <<<<":", "currency">>, <<"address_pool">>>>,
      trading_pair_parameter |-> <<>>, currency_parameter |-> <<"currency">>,
      parameters |-> <<>>, id_parameter |-> <<>>])
  @@ ("markCoinsAsTransferred" :> [http_method |-> "POST",
      path_segments |-> <<<<":", "trading_pair">>, <<"trades">>, <<":", "trade_id">>, <<"mark_coins_as_transferred">>>>,
      trading_pair_parameter |-> <<"trading_pair">>, currency_parameter |-> <<>>,
      parameters |-> <<"amount_currency_to_trade_after_fee">>, id_parameter |-> <<"trade_id">>])
  @@ ("markCoinsAsReceived" :> [http_method |-> "POST",
      path_segments |-> <<<<":", "trading_pair">>, <<"trades">>, <<":", "trade_id">>, <<"mark_coins_as_received">>>>,
      trading_pair_parameter |-> <<"trading_pair">>, currency_parameter |-> <<>>,
      parameters |-> <<"amount_currency_to_trade_after_fee", "rating">>, id_parameter |-> <<"trade_id">>])

\* constants.rs: the base URI the client imports (with a trailing slash)
API_BASE_URI == <<"https://api.bitcoin.de/v4", "/">>

(***************************************************************************)
(* url::Url                                                                *)
(* A parsed URL is [path, query]: path is everything up to the query, as   *)
(* serialized; query is None or Some(string).                              *)
(***************************************************************************)
\* percent-encoding of the path and of the query by the URL parser
PathEscape == (" " :> "%20")

QueryEscape == (" " :> "%20")

EscapeWith(table, t) ==
  Flat([i \in 1..Len(t) |-> IF t[i] \in DOMAIN table THEN table[t[i]] ELSE t[i]])

\* position of the first "?" of a text, 0 when there is none
FirstQuestionMark(t) ==
  IF \E i \in 1..Len(t) : t[i] = "?"
  THEN CHOOSE i \in 1..Len(t) : t[i] = "?" /\ \A j \in 1..(i - 1) : t[j] # "?"
  ELSE 0

Url_parse(t) ==
  LET q == FirstQuestionMark(t)
  IN IF q = 0
     THEN [path |-> EscapeWith(PathEscape, t), query |-> None]
     ELSE [path |-> EscapeWith(PathEscape, SubSeq(t, 1, q - 1)),
           query |-> Some(EscapeWith(QueryEscape, SubSeq(t, q + 1, Len(t))))]

Url_set_query(url, query_string) ==
  [url EXCEPT !.query = Some(EscapeWith(QueryEscape, query_string))]

Url_to_string(url) ==
  IF url.query = None THEN url.path ELSE url.path \o "?" \o url.query[1]

(***************************************************************************)
(* Digests.  MD5 and HMAC-SHA256 are modelled as perfect hashes: the hex   *)
(* digest of a string is a term built from that string, and the MD5 of     *)
(* the empty string is its well-known value.                               *)
(***************************************************************************)
EMPTY_MD5 == "d41d8cd98f00b204e9800998ecf8427e"

md5_hex(s) == IF s = "" THEN EMPTY_MD5 ELSE "md5(" \o s \o ")"

hmac_sha256_hex(key, data) == [alg |-> "HMAC-SHA256", key |-> key, data |-> data]

\* HeaderValue::from_str: an error for a control character
ControlChars == {"\n"}

HeaderValue_is_valid(t) == \A i \in 1..Len(t) : t[i] \notin ControlChars

(***************************************************************************)
(* JSON bodies: a body is its raw text and, when the text is JSON, the     *)
(* value it denotes (objects are functions from field names to values,     *)
(* every value carries its JSON type).                                     *)
(***************************************************************************)
JNum(n) == [t |-> "num", v |-> n]
JStr(x) == [t |-> "str", v |-> x]
JArr(x) == [t |-> "arr", v |-> x]
JObj(x) == [t |-> "obj", v |-> x]

RatesBody ==
  [raw |-> "{\"trading_pair\":\"BTCEUR\",\"rates\":{...},\"errors\":[],\"credits\":10}",
   json |-> Some(JObj(
        ("trading_pair" :> JStr("BTCEUR"))
     @@ ("rates" :> JObj(("rate_weighted" :> JStr("50000.00"))
                      @@ ("rate_weighted_3h" :> JStr("49950.00"))
                      @@ ("rate_weighted_12h" :> JStr("49900.00"))))
     @@ ("errors" :> JArr(<<>>))
     @@ ("credits" :> JNum(10))))]

ErrorBody ==
  [raw |-> "{\"errors\":[5],\"messages\":[\"missing parameter\"]}",
   json |-> Some(JObj(("errors" :> JArr(<<JNum(5)>>))
                   @@ ("messages" :> JArr(<<JStr("missing parameter")>>))))]

HtmlBody == [raw |-> "<html>Bad Gateway</html>", json |-> None]

Bodies == {RatesBody, ErrorBody, HtmlBody}

IsArrayOf(j, type) == j.t = "arr" /\ \A i \in 1..Len(j.v) : j.v[i].t = type

\* a decoder of the error body that asks for the errors list only
from_str_ApiErrorBody_lenient(body) ==
  IF /\ body.json # None
     /\ body.json[1].t = "obj"
     /\ "errors" \in DOMAIN body.json[1].v
     /\ IsArrayOf(body.json[1].v["errors"], "num")
  THEN LET o == body.json[1].v
       IN Some([errors |-> [i \in 1..Len(o["errors"].v) |-> o["errors"].v[i].v],
                messages |-> <<>>])
  ELSE None

\* serde_json::from_str::<ApiErrorBody>(body).ok()
from_str_ApiErrorBody(body) ==
  IF /\ body.json # None
     /\ body.json[1].t = "obj"
     /\ {"errors", "messages"} \subseteq DOMAIN body.json[1].v
     /\ IsArrayOf(body.json[1].v["errors"], "num")
     /\ IsArrayOf(body.json[1].v["messages"], "str")
  THEN LET o == body.json[1].v
       IN Some([errors |-> [i \in 1..Len(o["errors"].v) |-> o["errors"].v[i].v],
                messages |-> [i \in 1..Len(o["messages"].v) |-> o["messages"].v[i].v]])
  ELSE None

\* serde_json::from_str::<T>(body) for T = ShowRatesResponse: Some(value) or None
from_str_T(body) ==
  IF /\ body.json # None
     /\ body.json[1].t = "obj"
     /\ {"trading_pair", "rates", "errors", "credits"} \subseteq DOMAIN body.json[1].v
     /\ body.json[1].v["trading_pair"].t = "str"
     /\ body.json[1].v["rates"].t = "obj"
     /\ {"rate_weighted", "rate_weighted_3h", "rate_weighted_12h"}
          \subseteq DOMAIN body.json[1].v["rates"].v
     /\ \A f \in {"rate_weighted", "rate_weighted_3h", "rate_weighted_12h"} :
          body.json[1].v["rates"].v[f].t = "str"
     /\ IsArrayOf(body.json[1].v["errors"], "obj")
     /\ body.json[1].v["credits"].t = "num"
  THEN LET o == body.json[1].v
       IN Some([trading_pair |-> o["trading_pair"].v,
                rate_weighted |-> o["rates"].v["rate_weighted"].v,
                rate_weighted_3h |-> o["rates"].v["rate_weighted_3h"].v,
                rate_weighted_12h |-> o["rates"].v["rate_weighted_12h"].v,
                credits |-> o["credits"].v])
  ELSE None

StatusCodes == {200, 400}

\* a status check that takes every status below 500 for a success
is_success_below_500(status) == status >= 200 /\ status <= 499

is_success(status) == status >= 200 /\ status <= 299

\* Error::api_error
api_error(status, body) ==
  [kind |-> "Api", status |-> status, body |-> body.raw,
   api_error_details |-> from_str_ApiErrorBody(body)]

(***************************************************************************)
(* TradingApiSdkV4::build_url_path                                         *)
(***************************************************************************)
\* the base URI taken with its trailing slash
trim_end_matches_none(t, c) == t

RECURSIVE trim_end_matches(_, _)
trim_end_matches(t, c) ==
  IF t # <<>> /\ t[Len(t)] = c THEN trim_end_matches(SubSeq(t, 1, Len(t) - 1), c) ELSE t

starts_with(segment, c) == segment # <<>> /\ Head(segment) = c

\* the name of a placeholder segment: &segment[1..]
param_name_of(segment) == Flat(Tail(segment))

\* Vec<String>::join
RECURSIVE join(_, _)
join(texts, sep) ==
  IF texts = <<>> THEN <<>>
  ELSE IF Len(texts) = 1 THEN texts[1]
  ELSE texts[1] \o <<sep>> \o join(Tail(texts), sep)

\* a loop that substitutes the empty string for a placeholder without a value
RECURSIVE process_segments_lenient(_, _, _)
process_segments_lenient(segments, path_params, processed_segments) ==
  IF segments = <<>> THEN [ok |-> TRUE, processed_segments |-> processed_segments]
  ELSE LET segment == Head(segments)
       IN IF starts_with(segment, ":")
          THEN LET param_name == param_name_of(segment)
               IN process_segments_lenient(Tail(segments), remove(path_params, param_name),
                    Append(processed_segments,
                           IF param_name \in DOMAIN path_params
                           THEN path_params[param_name] ELSE <<>>))
          ELSE process_segments_lenient(Tail(segments), path_params,
                                        Append(processed_segments, segment))

\* the loop over path_segments: Ok(processed_segments) or Err(MissingPathParameter)
RECURSIVE process_segments(_, _, _)
process_segments(segments, path_params, processed_segments) ==
  IF segments = <<>> THEN [ok |-> TRUE, processed_segments |-> processed_segments]
  ELSE LET segment == Head(segments)
       IN IF starts_with(segment, ":")
          THEN LET param_name == param_name_of(segment)
               IN IF param_name \in DOMAIN path_params
                  THEN process_segments(Tail(segments), remove(path_params, param_name),
                                        Append(processed_segments, path_params[param_name]))
                  ELSE [ok |-> FALSE,
                        err |-> [kind |-> "MissingPathParameter", name |-> param_name]]
          ELSE process_segments(Tail(segments), path_params,
                                Append(processed_segments, segment))

build_url_path(method_setting, path_params) ==
  LET r == process_segments(method_setting.path_segments, path_params, <<>>)
  IN IF r.ok
     THEN [ok |-> TRUE,
           final_path |-> trim_end_matches(API_BASE_URI, "/") \o <<"/">>
                            \o join(r.processed_segments, "/")]
     ELSE r

(***************************************************************************)
(* TradingApiSdkV4::generate_signature                                     *)
(***************************************************************************)
\* step 1: the MD5 of the sorted, form-encoded body parameters
post_parameter_md5_hashed_string(body_parameters, order) ==
  IF body_parameters # None /\ body_parameters[1] # EmptyMap
  THEN LET sorted_params == sort_by_key(iter(body_parameters[1], order))
           url_encoded_query_string == Flat(serde_urlencoded_to_string(sorted_params))
       IN md5_hex(url_encoded_query_string)
  ELSE EMPTY_MD5

\* the fields joined with the nonce before the API key
hmac_data_of_swapped(credentials, http_method, url_for_signature, nonce, md5) ==
  to_uppercase(http_method) \o "#" \o url_for_signature \o "#"
    \o nonce \o "#" \o Flat(credentials.api_key) \o "#" \o md5

\* step 2: the string the HMAC is computed over
hmac_data_of(credentials, http_method, url_for_signature, nonce, md5) ==
  to_uppercase(http_method) \o "#" \o url_for_signature \o "#"
    \o Flat(credentials.api_key) \o "#" \o nonce \o "#" \o md5

generate_signature(credentials, http_method, url_for_signature, nonce, body_parameters, order) ==
  hmac_sha256_hex(credentials.api_secret,
    hmac_data_of(credentials, http_method, url_for_signature, nonce,
                 post_parameter_md5_hashed_string(body_parameters, order)))

\* Option::unwrap_or_default
unwrap_or_default(parameters) == IF parameters = None THEN EmptyMap ELSE parameters[1]

(***************************************************************************)
(* enums::TradingPair                                                      *)
(***************************************************************************)
\* the variants in the order of ALL_TRADING_PAIRS; as_str gives the same
\* spelling for each of them
ALL_TRADING_PAIRS ==
  <<
    "BTCEUR", "BCHEUR", "ETHBTC", "ETHEUR", "LTCEUR", "LTCBTC", "XRPEUR",
    "XRPBTC", "EOSEUR", "EOSBTC", "BNBEUR", "BNBBTC", "XMREUR", "XMRBTC",
    "TRXEUR", "TRXBTC", "ETCBTC", "ETCEUR", "DASHEUR", "DASHBTC", "ZECEUR",
    "ZECBTC", "REPEUR", "REPBTC", "BATEUR", "BATBTC", "AIDUSDEUR",
    "AIDUSDBTC", "XLMEUR", "XLMBTC", "AVAXEUR", "AVAXBTC", "ADAEUR",
    "ADABTC", "GRTEUR", "GRTBTC", "LINKEUR", "LINKBTC", "MATICBTC",
    "MATICEUR", "SOLEUR", "SOLBTC", "DOTEUR", "DOTBTC", "UNIEUR", "UNIBTC",
    "XMRETH", "XRPETH", "LTCETH", "DASHETH", "ZECETH", "REPBCH", "BATBCH",
    "XLMBCH", "ADAETH", "GRTETH", "LINKETH", "MATICETH", "SOLETH",
    "DOTETH", "UNIBNB", "EURCHF", "BTCCHF", "ETHCHF"
  >>

\* a variant of the enum
TradingPair(variant) == [TradingPair |-> variant]

as_str(pair) == pair.TradingPair

\* str::to_ascii_lowercase on the strings with upper case letters that occur
ASCII_LOWERCASE ==
     ("BTCEUR" :> "btceur")
  @@ ("BCHEUR" :> "bcheur")
  @@ ("ETHBTC" :> "ethbtc")
  @@ ("ETHEUR" :> "etheur")
  @@ ("LTCEUR" :> "ltceur")
  @@ ("LTCBTC" :> "ltcbtc")
  @@ ("XRPEUR" :> "xrpeur")
  @@ ("XRPBTC" :> "xrpbtc")
  @@ ("EOSEUR" :> "eoseur")
  @@ ("EOSBTC" :> "eosbtc")
  @@ ("BNBEUR" :> "bnbeur")
  @@ ("BNBBTC" :> "bnbbtc")
  @@ ("XMREUR" :> "xmreur")
  @@ ("XMRBTC" :> "xmrbtc")
  @@ ("TRXEUR" :> "trxeur")
  @@ ("TRXBTC" :> "trxbtc")
  @@ ("ETCBTC" :> "etcbtc")
  @@ ("ETCEUR" :> "etceur")
  @@ ("DASHEUR" :> "dasheur")
  @@ ("DASHBTC" :> "dashbtc")
  @@ ("ZECEUR" :> "zeceur")
  @@ ("ZECBTC" :> "zecbtc")
  @@ ("REPEUR" :> "repeur")
  @@ ("REPBTC" :> "repbtc")
  @@ ("BATEUR" :> "bateur")
  @@ ("BATBTC" :> "batbtc")
  @@ ("AIDUSDEUR" :> "aidusdeur")
  @@ ("AIDUSDBTC" :> "aidusdbtc")
  @@ ("XLMEUR" :> "xlmeur")
  @@ ("XLMBTC" :> "xlmbtc")
  @@ ("AVAXEUR" :> "avaxeur")
  @@ ("AVAXBTC" :> "avaxbtc")
  @@ ("ADAEUR" :> "adaeur")
  @@ ("ADABTC" :> "adabtc")
  @@ ("GRTEUR" :> "grteur")
  @@ ("GRTBTC" :> "grtbtc")
  @@ ("LINKEUR" :> "linkeur")
  @@ ("LINKBTC" :> "linkbtc")
  @@ ("MATICBTC" :> "maticbtc")
  @@ ("MATICEUR" :> "maticeur")
  @@ ("SOLEUR" :> "soleur")
  @@ ("SOLBTC" :> "solbtc")
  @@ ("DOTEUR" :> "doteur")
  @@ ("DOTBTC" :> "dotbtc")
  @@ ("UNIEUR" :> "unieur")
  @@ ("UNIBTC" :> "unibtc")
  @@ ("XMRETH" :> "xmreth")
  @@ ("XRPETH" :> "xrpeth")
  @@ ("LTCETH" :> "ltceth")
  @@ ("DASHETH" :> "dasheth")
  @@ ("ZECETH" :> "zeceth")
  @@ ("REPBCH" :> "repbch")
  @@ ("BATBCH" :> "batbch")
  @@ ("XLMBCH" :> "xlmbch")
  @@ ("ADAETH" :> "adaeth")
  @@ ("GRTETH" :> "grteth")
  @@ ("LINKETH" :> "linketh")
  @@ ("MATICETH" :> "maticeth")
  @@ ("SOLETH" :> "soleth")
  @@ ("DOTETH" :> "doteth")
  @@ ("UNIBNB" :> "unibnb")
  @@ ("EURCHF" :> "eurchf")
  @@ ("BTCCHF" :> "btcchf")
  @@ ("ETHCHF" :> "ethchf")
  @@ ("EthEur" :> "etheur")
  @@ ("A" :> "a") @@ ("B" :> "b") @@ ("C" :> "c") @@ ("D" :> "d") @@ ("E" :> "e") @@ ("F" :> "f")
  @@ ("G" :> "g") @@ ("H" :> "h") @@ ("I" :> "i") @@ ("J" :> "j") @@ ("K" :> "k") @@ ("L" :> "l")
  @@ ("M" :> "m") @@ ("N" :> "n") @@ ("O" :> "o") @@ ("P" :> "p") @@ ("Q" :> "q") @@ ("R" :> "r")
  @@ ("S" :> "s") @@ ("T" :> "t") @@ ("U" :> "u") @@ ("V" :> "v") @@ ("W" :> "w") @@ ("X" :> "x")
  @@ ("Y" :> "y") @@ ("Z" :> "z")

to_ascii_lowercase(s) == IF s \in DOMAIN ASCII_LOWERCASE THEN ASCII_LOWERCASE[s] ELSE s

\* a loop that compares the spelling of the variant as it is
RECURSIVE from_str_from_case_sensitive(_, _)
from_str_from_case_sensitive(lower_s, i) ==
  IF i > Len(ALL_TRADING_PAIRS) THEN None
  ELSE IF as_str(TradingPair(ALL_TRADING_PAIRS[i])) = lower_s
       THEN Some(TradingPair(ALL_TRADING_PAIRS[i]))
       ELSE from_str_from_case_sensitive(lower_s, i + 1)

\* the loop of TradingPair::from_str from position i on
RECURSIVE from_str_from(_, _)
from_str_from(lower_s, i) ==
  IF i > Len(ALL_TRADING_PAIRS) THEN None
  ELSE IF to_ascii_lowercase(as_str(TradingPair(ALL_TRADING_PAIRS[i]))) = lower_s
       THEN Some(TradingPair(ALL_TRADING_PAIRS[i]))
       ELSE from_str_from(lower_s, i + 1)

\* str::to_ascii_lowercase of a text, chunk by chunk
to_ascii_lowercase_text(t) == Flat([i \in 1..Len(t) |-> to_ascii_lowercase(t[i])])

\* TradingPair::from_str for a text: Ok(pair) or Err(Error::Other(..))
from_str(t) ==
  LET found == from_str_from(to_ascii_lowercase_text(t), 1)
  IN IF found # None
     THEN [kind |-> "Ok", value |-> found[1]]
     ELSE [kind |-> "Other", message |-> "Invalid trading pair: " \o Flat(t)]

\* TradingPair::from_str(s).ok() for a string given as one chunk
TradingPair_from_str(s) ==
  IF from_str(<<s>>).kind = "Ok" THEN Some(from_str(<<s>>).value) ELSE None

\* str::chars of the strings as_str returns
chars ==
     ("BTCEUR" :> <<"B", "T", "C", "E", "U", "R">>)
  @@ ("BCHEUR" :> <<"B", "C", "H", "E", "U", "R">>)
  @@ ("ETHBTC" :> <<"E", "T", "H", "B", "T", "C">>)
  @@ ("ETHEUR" :> <<"E", "T", "H", "E", "U", "R">>)
  @@ ("LTCEUR" :> <<"L", "T", "C", "E", "U", "R">>)
  @@ ("LTCBTC" :> <<"L", "T", "C", "B", "T", "C">>)
  @@ ("XRPEUR" :> <<"X", "R", "P", "E", "U", "R">>)
  @@ ("XRPBTC" :> <<"X", "R", "P", "B", "T", "C">>)
  @@ ("EOSEUR" :> <<"E", "O", "S", "E", "U", "R">>)
  @@ ("EOSBTC" :> <<"E", "O", "S", "B", "T", "C">>)
  @@ ("BNBEUR" :> <<"B", "N", "B", "E", "U", "R">>)
  @@ ("BNBBTC" :> <<"B", "N", "B", "B", "T", "C">>)
  @@ ("XMREUR" :> <<"X", "M", "R", "E", "U", "R">>)
  @@ ("XMRBTC" :> <<"X", "M", "R", "B", "T", "C">>)
  @@ ("TRXEUR" :> <<"T", "R", "X", "E", "U", "R">>)
  @@ ("TRXBTC" :> <<"T", "R", "X", "B", "T", "C">>)
  @@ ("ETCBTC" :> <<"E", "T", "C", "B", "T", "C">>)
  @@ ("ETCEUR" :> <<"E", "T", "C", "E", "U", "R">>)
  @@ ("DASHEUR" :> <<"D", "A", "S", "H", "E", "U", "R">>)
  @@ ("DASHBTC" :> <<"D", "A", "S", "H", "B", "T", "C">>)
  @@ ("ZECEUR" :> <<"Z", "E", "C", "E", "U", "R">>)
  @@ ("ZECBTC" :> <<"Z", "E", "C", "B", "T", "C">>)
  @@ ("REPEUR" :> <<"R", "E", "P", "E", "U", "R">>)
  @@ ("REPBTC" :> <<"R", "E", "P", "B", "T", "C">>)
  @@ ("BATEUR" :> <<"B", "A", "T", "E", "U", "R">>)
  @@ ("BATBTC" :> <<"B", "A", "T", "B", "T", "C">>)
  @@ ("AIDUSDEUR" :> <<"A", "I", "D", "U", "S", "D", "E", "U", "R">>)
  @@ ("AIDUSDBTC" :> <<"A", "I", "D", "U", "S", "D", "B", "T", "C">>)
  @@ ("XLMEUR" :> <<"X", "L", "M", "E", "U", "R">>)
  @@ ("XLMBTC" :> <<"X", "L", "M", "B", "T", "C">>)
  @@ ("AVAXEUR" :> <<"A", "V", "A", "X", "E", "U", "R">>)
  @@ ("AVAXBTC" :> <<"A", "V", "A", "X", "B", "T", "C">>)
  @@ ("ADAEUR" :> <<"A", "D", "A", "E", "U", "R">>)
  @@ ("ADABTC" :> <<"A", "D", "A", "B", "T", "C">>)
  @@ ("GRTEUR" :> <<"G", "R", "T", "E", "U", "R">>)
  @@ ("GRTBTC" :> <<"G", "R", "T", "B", "T", "C">>)
  @@ ("LINKEUR" :> <<"L", "I", "N", "K", "E", "U", "R">>)
  @@ ("LINKBTC" :> <<"L", "I", "N", "K", "B", "T", "C">>)
  @@ ("MATICBTC" :> <<"M", "A", "T", "I", "C", "B", "T", "C">>)
  @@ ("MATICEUR" :> <<"M", "A", "T", "I", "C", "E", "U", "R">>)
  @@ ("SOLEUR" :> <<"S", "O", "L", "E", "U", "R">>)
  @@ ("SOLBTC" :> <<"S", "O", "L", "B", "T", "C">>)
  @@ ("DOTEUR" :> <<"D", "O", "T", "E", "U", "R">>)
  @@ ("DOTBTC" :> <<"D", "O", "T", "B", "T", "C">>)
  @@ ("UNIEUR" :> <<"U", "N", "I", "E", "U", "R">>)
  @@ ("UNIBTC" :> <<"U", "N", "I", "B", "T", "C">>)
  @@ ("XMRETH" :> <<"X", "M", "R", "E", "T", "H">>)
  @@ ("XRPETH" :> <<"X", "R", "P", "E", "T", "H">>)
  @@ ("LTCETH" :> <<"L", "T", "C", "E", "T", "H">>)
  @@ ("DASHETH" :> <<"D", "A", "S", "H", "E", "T", "H">>)
  @@ ("ZECETH" :> <<"Z", "E", "C", "E", "T", "H">>)
  @@ ("REPBCH" :> <<"R", "E", "P", "B", "C", "H">>)
  @@ ("BATBCH" :> <<"B", "A", "T", "B", "C", "H">>)
  @@ ("XLMBCH" :> <<"X", "L", "M", "B", "C", "H">>)
  @@ ("ADAETH" :> <<"A", "D", "A", "E", "T", "H">>)
  @@ ("GRTETH" :> <<"G", "R", "T", "E", "T", "H">>)
  @@ ("LINKETH" :> <<"L", "I", "N", "K", "E", "T", "H">>)
  @@ ("MATICETH" :> <<"M", "A", "T", "I", "C", "E", "T", "H">>)
  @@ ("SOLETH" :> <<"S", "O", "L", "E", "T", "H">>)
  @@ ("DOTETH" :> <<"D", "O", "T", "E", "T", "H">>)
  @@ ("UNIBNB" :> <<"U", "N", "I", "B", "N", "B">>)
  @@ ("EURCHF" :> <<"E", "U", "R", "C", "H", "F">>)
  @@ ("BTCCHF" :> <<"B", "T", "C", "C", "H", "F">>)
  @@ ("ETHCHF" :> <<"E", "T", "H", "C", "H", "F">>)

(***************************************************************************)
(* The typed wrappers of TradingApiSdkV4 (lines 369-988)                   *)
(***************************************************************************)
\* the method name each wrapper passes to do_request
WRAPPER_METHOD ==
     ("show_account_info" :> "showAccountInfo")
  @@ ("show_rates" :> "showRates")
  @@ ("show_orderbook" :> "showOrderbook")
  @@ ("show_order_details" :> "showOrderDetails")
  @@ ("create_order" :> "createOrder")
  @@ ("delete_order" :> "deleteOrder")
  @@ ("show_my_orders" :> "showMyOrders")
  @@ ("show_my_trades" :> "showMyTrades")
  @@ ("show_my_trade_details" :> "showMyTradeDetails")
  @@ ("execute_trade" :> "executeTrade")
  @@ ("mark_trade_as_paid" :> "markTradeAsPaid")
  @@ ("mark_trade_as_payment_received" :> "markTradeAsPaymentReceived")
  @@ ("add_trade_rating" :> "addTradeRating")
  @@ ("show_account_ledger" :> "showAccountLedger")
  @@ ("show_permissions" :> "showPermissions")
  @@ ("create_withdrawal" :> "createWithdrawal")
  @@ ("delete_withdrawal" :> "deleteWithdrawal")
  @@ ("show_withdrawal" :> "showWithdrawal")
  @@ ("show_withdrawals" :> "showWithdrawals")
  @@ ("show_withdrawal_min_network_fee" :> "showWithdrawalMinNetworkFee")
  @@ ("request_deposit_address" :> "requestDepositAddress")
  @@ ("show_deposit" :> "showDeposit")
  @@ ("show_deposits" :> "showDeposits")
  @@ ("create_outgoing_address" :> "createOutgoingAddress")
  @@ ("delete_outgoing_address" :> "deleteOutgoingAddress")
  @@ ("show_outgoing_addresses" :> "showOutgoingAddresses")
  @@ ("show_public_trade_history" :> "showPublicTradeHistory")
  @@ ("show_orderbook_compact" :> "showOrderbookCompact")
  @@ ("add_to_address_pool" :> "addToAddressPool")
  @@ ("remove_from_address_pool" :> "removeFromAddressPool")
  @@ ("list_address_pool" :> "listAddressPool")
  @@ ("mark_coins_as_transferred" :> "markCoinsAsTransferred")
  @@ ("mark_coins_as_received" :> "markCoinsAsReceived")

\* HashMap::insert
insert(map, key, value) == [k \in (DOMAIN map) \cup {key} |-> IF k = key THEN value ELSE map[k]]

\* the arguments show_account_info passes to do_request
show_account_info ==
  [method_name |-> WRAPPER_METHOD["show_account_info"], parameters |-> None]

\* the arguments show_rates passes to do_request
show_rates(trading_pair) ==
  [method_name |-> WRAPPER_METHOD["show_rates"],
   parameters |-> Some(insert(EmptyMap, "trading_pair",
                              <<to_ascii_lowercase(as_str(trading_pair))>>))]

\* the arguments show_my_orders passes to do_request
show_my_orders(trading_pair, params) ==
  LET all_params == unwrap_or_default(params)
  IN [method_name |-> WRAPPER_METHOD["show_my_orders"],
      parameters |-> Some(IF trading_pair # None
                          THEN insert(all_params, "trading_pair", trading_pair[1])
                          ELSE all_params)]

\* the arguments show_my_trades passes to do_request
show_my_trades(trading_pair, params) ==
  LET all_params == unwrap_or_default(params)
  IN [method_name |-> WRAPPER_METHOD["show_my_trades"],
      parameters |-> Some(IF trading_pair # None
                          THEN insert(all_params, "trading_pair", trading_pair[1])
                          ELSE all_params)]

(***************************************************************************)
(* Inputs of the model                                                     *)
(***************************************************************************)
MethodNames ==
  (DOMAIN METHOD_SETTINGS) \cup {WRAPPER_METHOD[w] : w \in DOMAIN WRAPPER_METHOD}
    \cup {"doesNotExist"}

ParamNames == DOMAIN StrBytes

ParamValues ==
     ("trading_pair" :> {<<"btceur">>, <<"btc", "?", "x", " ", "y">>})
  @@ ("order_id" :> {<<"42">>})
  @@ ("type" :> {<<"buy">>, <<"a", "&", "b", "=", " ", "c">>})
  @@ ("price" :> {<<"100.00">>})

AllValues == UNION {ParamValues[n] : n \in ParamNames}

Bags ==
  UNION {{bag \in [names -> AllValues] : \A n \in names : bag[n] \in ParamValues[n]} :
           names \in {ns \in SUBSET ParamNames : Cardinality(ns) <= MaxBag}}

\* parameters: Option<HashMap<&'static str, String>>
ParameterInputs == {None} \cup {Some(bag) : bag \in Bags}

ApiKeys == {<<"KEY1">>, <<"KEY1", "\n">>}

\* before the epoch, or a one- or two-digit number of microseconds after it
ClockValues == {-1} \cup (9 .. MaxClock)

(***************************************************************************)
(* State                                                                   *)
(*   api_credentials  the key and the secret held by the client            *)
(*   clock            SystemTime::now() in microseconds since the epoch    *)
(*   call[c]          the locals of the do_request call in slot c, the     *)
(*                    requests it handed to the transport, the response    *)
(*                    it read and its result                               *)
(*   transmitted_nonce  the nonce of the last request the client handed    *)
(*                    to the transport (what the server saw last)          *)
(*   backend          the request the backend binary is serving            *)
(*   cli              the run of the command line binary                   *)
(*   from_str_call    an input of TradingPair::from_str and its result     *)
(*   csv              the CSV file of write_to_csv (file: None when the    *)
(*                    path does not exist, else its lines), the number n   *)
(*                    of calls made, the rows they were given (rows: None  *)
(*                    once a call has failed to open or to write), and     *)
(*                    what the last call returned                          *)
(***************************************************************************)
NoCall ==
  [pc |-> "idle", method_name |-> "", parameters |-> None, order |-> <<>>,
   remaining_params |-> EmptyMap, base_url_path |-> "",
   url_for_request |-> [path |-> "", query |-> None], url_for_signature |-> "",
   params_for_signature |-> None, params_for_body |-> None,
   nonce |-> "", md5 |-> "", hmac_data |-> "", signature |-> None,
   requests |-> <<>>, status_code |-> 0, response_text |-> None, result |-> None]

Failed(c0, err) == [c0 EXCEPT !.pc = "done", !.result = Some(err)]

\* the backend between two requests, and the command line binary not run
NoRequest ==
  [pc |-> "listening", path |-> <<>>, handler |-> "", sdk_calls |-> <<>>,
   result |-> None, response |-> None]

NoRun ==
  [pc |-> "start", trading_pairs |-> <<>>, amounts |-> <<>>, csv_output |-> None,
   i |-> 0, sdk_calls |-> <<>>, csv_data |-> <<>>, stderr |-> <<>>, result |-> None]

\* TradingPair::from_str not called, and no CSV file written
NoParse == [s |-> <<>>, result |-> None]

NoFile == [file |-> None, n |-> 0, rows |-> Some(<<>>), result |-> None]

\* TradingApiSdkV4::new: a client used through do_request directly
Init ==
  /\ api_credentials \in [api_key : ApiKeys, api_secret : {"SECRET"}]
  /\ clock = 9
  /\ call = [c \in Calls |-> NoCall]
  /\ transmitted_nonce = None
  /\ backend = NoRequest
  /\ cli = NoRun
  /\ from_str_call = NoParse
  /\ csv = NoFile

(***************************************************************************)
(* do_request, lines 146-214: registry lookup, path parameters, URL        *)
(***************************************************************************)
Placeholders(method_setting) ==
  {param_name_of(method_setting.path_segments[i]) :
     i \in {j \in 1..Len(method_setting.path_segments) :
              starts_with(method_setting.path_segments[j], ":")}}

\* lines 157-169
path_params_map_of(method_setting, params) ==
  [n \in Placeholders(method_setting) \cap DOMAIN params |-> params[n]]

\* the path parameters are not taken out of the bag
remaining_params_of_all(params, path_params_map) == params

\* lines 170-173
remaining_params_of(params, path_params_map) ==
  [n \in (DOMAIN params) \ (DOMAIN path_params_map) |-> params[n]]

\* the arm "GET" | "DELETE" handing the query parameters to the signer as well
get_delete_arm_signing_params(parsed, base_url_path, remaining_params, order) ==
  LET url_for_request ==
        IF remaining_params # EmptyMap
        THEN Url_set_query(parsed, serde_urlencoded_to_string(iter(remaining_params, order)))
        ELSE parsed
  IN [url_for_request |-> url_for_request,
      url_for_signature |-> Url_to_string(url_for_request),
      params_for_signature |-> IF remaining_params = EmptyMap THEN None ELSE Some(remaining_params),
      params_for_body |-> None]

\* the arm "GET" | "DELETE" signing the base path instead of the full URL
get_delete_arm_base_signature(parsed, base_url_path, remaining_params, order) ==
  LET url_for_request ==
        IF remaining_params # EmptyMap
        THEN Url_set_query(parsed, serde_urlencoded_to_string(iter(remaining_params, order)))
        ELSE parsed
  IN [url_for_request |-> url_for_request,
      url_for_signature |-> Flat(base_url_path),
      params_for_signature |-> None,
      params_for_body |-> None]

\* lines 188-200: the arm "GET" | "DELETE" of the match on http_method
get_delete_arm(parsed, base_url_path, remaining_params, order) ==
  LET url_for_request ==
        IF remaining_params # EmptyMap
        THEN Url_set_query(parsed, serde_urlencoded_to_string(iter(remaining_params, order)))
        ELSE parsed
  IN [url_for_request |-> url_for_request,
      url_for_signature |-> Url_to_string(url_for_request),
      params_for_signature |-> None,
      params_for_body |-> None]

\* lines 201-209: the arm "POST"
post_arm(parsed, base_url_path, remaining_params, order) ==
  [url_for_request |-> parsed,
   url_for_signature |-> Flat(base_url_path),
   params_for_signature |-> IF remaining_params = EmptyMap THEN None ELSE Some(remaining_params),
   params_for_body |-> IF remaining_params = EmptyMap THEN None ELSE Some(remaining_params)]

\* the match on http_method without "DELETE" in its first arm
Prepared_get_only(c0, method_setting, base_url_path, remaining_params, order) ==
  LET parsed == Url_parse(base_url_path)
      Matched(arm) ==
        [c0 EXCEPT !.pc = "prepared", !.order = order,
                   !.remaining_params = remaining_params,
                   !.base_url_path = Flat(base_url_path),
                   !.url_for_request = arm.url_for_request,
                   !.url_for_signature = arm.url_for_signature,
                   !.params_for_signature = arm.params_for_signature,
                   !.params_for_body = arm.params_for_body]
  IN CASE method_setting.http_method = "GET" ->
            Matched(get_delete_arm(parsed, base_url_path, remaining_params, order))
       [] method_setting.http_method = "POST" ->
            Matched(post_arm(parsed, base_url_path, remaining_params, order))
       [] OTHER ->
            Failed(c0, [kind |-> "Other", message |-> "Unsupported HTTP method"])

\* lines 180-214, for one iteration order of remaining_params
Prepared(c0, method_setting, base_url_path, remaining_params, order) ==
  LET parsed == Url_parse(base_url_path)
      Matched(arm) ==
        [c0 EXCEPT !.pc = "prepared", !.order = order,
                   !.remaining_params = remaining_params,
                   !.base_url_path = Flat(base_url_path),
                   !.url_for_request = arm.url_for_request,
                   !.url_for_signature = arm.url_for_signature,
                   !.params_for_signature = arm.params_for_signature,
                   !.params_for_body = arm.params_for_body]
  IN CASE method_setting.http_method \in {"GET", "DELETE"} ->
            Matched(get_delete_arm(parsed, base_url_path, remaining_params, order))
       [] method_setting.http_method = "POST" ->
            Matched(post_arm(parsed, base_url_path, remaining_params, order))
       [] OTHER ->
            Failed(c0, [kind |-> "Other", message |-> "Unsupported HTTP method"])

\* do_request keeping only the parameters that the registry entry lists
do_request_listed_only(c, method_name, parameters) ==
  LET c0 == [NoCall EXCEPT !.method_name = method_name, !.parameters = parameters]
  IN IF get(METHOD_SETTINGS, method_name) = None
     THEN call' = [call EXCEPT ![c] =
                     Failed(c0, [kind |-> "MethodNotFound", name |-> method_name])]
     ELSE LET method_setting == get(METHOD_SETTINGS, method_name)[1]
              params == unwrap_or_default(parameters)
              path_params_map == path_params_map_of(method_setting, params)
              listed == {method_setting.parameters[i] :
                           i \in 1..Len(method_setting.parameters)}
              remaining_params ==
                [n \in (DOMAIN remaining_params_of(params, path_params_map)) \cap listed
                   |-> params[n]]
              built == build_url_path(method_setting, path_params_map)
          IN IF ~built.ok
             THEN call' = [call EXCEPT ![c] = Failed(c0, built.err)]
             ELSE \E order \in Orders(DOMAIN remaining_params) :
                    call' = [call EXCEPT ![c] =
                               Prepared(c0, method_setting, built.final_path,
                                        remaining_params, order)]

\* lines 146-214 for one call of do_request(method_name, parameters) in slot c
do_request(c, method_name, parameters) ==
  LET c0 == [NoCall EXCEPT !.method_name = method_name, !.parameters = parameters]
  IN IF get(METHOD_SETTINGS, method_name) = None
     THEN call' = [call EXCEPT ![c] =
                     Failed(c0, [kind |-> "MethodNotFound", name |-> method_name])]
     ELSE LET method_setting == get(METHOD_SETTINGS, method_name)[1]
              params == unwrap_or_default(parameters)
              path_params_map == path_params_map_of(method_setting, params)
              remaining_params == remaining_params_of(params, path_params_map)
              built == build_url_path(method_setting, path_params_map)
          IN IF ~built.ok
             THEN call' = [call EXCEPT ![c] = Failed(c0, built.err)]
             ELSE \E order \in Orders(DOMAIN remaining_params) :
                    call' = [call EXCEPT ![c] =
                               Prepared(c0, method_setting, built.final_path,
                                        remaining_params, order)]

\* a caller of the library calls do_request
Invoke(c) ==
  /\ call[c].pc = "idle"
  /\ \E method_name \in MethodNames, parameters \in ParameterInputs :
       do_request(c, method_name, parameters)
  /\ UNCHANGED <<api_credentials, clock, transmitted_nonce, backend, cli, from_str_call, csv>>

(***************************************************************************)
(* do_request, lines 217-221: the nonce                                    *)
(***************************************************************************)
\* a nonce step that waits while another call holds a nonce it has not sent
GenerateNonce_serialized(c) ==
  /\ call[c].pc = "prepared"
  /\ \A d \in Calls \ {c} : call[d].pc # "nonced"
  /\ call' = [call EXCEPT ![c] =
                IF clock < 0
                THEN Failed(@, [kind |-> "SystemTime"])
                ELSE [@ EXCEPT !.pc = "nonced", !.nonce = to_string(clock)]]
  /\ UNCHANGED <<api_credentials, clock, transmitted_nonce, backend, cli, from_str_call, csv>>

GenerateNonce(c) ==
  /\ call[c].pc = "prepared"
  /\ call' = [call EXCEPT ![c] =
                IF clock < 0
                THEN Failed(@, [kind |-> "SystemTime"])
                ELSE [@ EXCEPT !.pc = "nonced", !.nonce = to_string(clock)]]
  /\ UNCHANGED <<api_credentials, clock, transmitted_nonce, backend, cli, from_str_call, csv>>

(***************************************************************************)
(* do_request, lines 224-265: signature, headers, request, send            *)
(***************************************************************************)
\* a body serialized from a copy of the map sorted by name
form_sorted(body_params, order) ==
  Flat(serde_urlencoded_to_string(sort_by_key(iter(body_params, order))))

\* RequestBuilder::form: the body is the map serialized in iteration order
form(body_params, order) == Flat(serde_urlencoded_to_string(iter(body_params, order)))

\* the request built with the values of the key and nonce headers swapped
Signed_swapped_headers(c0, credentials) ==
  LET method_setting == METHOD_SETTINGS[c0.method_name]
      md5 == post_parameter_md5_hashed_string(c0.params_for_signature, c0.order)
      signature == generate_signature(credentials, method_setting.http_method,
                                      c0.url_for_signature, c0.nonce,
                                      c0.params_for_signature, c0.order)
      headers ==
           ("X-API-KEY" :> c0.nonce)
        @@ ("X-API-NONCE" :> Flat(credentials.api_key))
        @@ ("X-API-SIGNATURE" :> signature)
      request ==
        [method |-> method_setting.http_method,
         url |-> c0.url_for_request,
         headers |-> headers,
         body |-> IF c0.params_for_body # None
                  THEN Some(form(c0.params_for_body[1], c0.order))
                  ELSE None]
      c1 == [c0 EXCEPT !.md5 = md5, !.hmac_data = signature.data, !.signature = Some(signature)]
  IN IF ~HeaderValue_is_valid(credentials.api_key)
     THEN Failed(c1, [kind |-> "InvalidHeaderValue"])
     ELSE [c1 EXCEPT !.pc = "sent", !.requests = Append(@, request)]

\* the request built with the secret sent along in a header of its own
Signed_secret_header(c0, credentials) ==
  LET method_setting == METHOD_SETTINGS[c0.method_name]
      md5 == post_parameter_md5_hashed_string(c0.params_for_signature, c0.order)
      signature == generate_signature(credentials, method_setting.http_method,
                                      c0.url_for_signature, c0.nonce,
                                      c0.params_for_signature, c0.order)
      headers ==
           ("X-API-KEY" :> Flat(credentials.api_key))
        @@ ("X-API-NONCE" :> c0.nonce)
        @@ ("X-API-SIGNATURE" :> signature)
        @@ ("X-API-SECRET" :> credentials.api_secret)
        @@ (IF method_setting.http_method = "POST" /\ c0.params_for_body # None
            THEN ("Content-Type" :> "application/x-www-form-urlencoded")
            ELSE <<>>)
      request ==
        [method |-> method_setting.http_method,
         url |-> c0.url_for_request,
         headers |-> headers,
         body |-> IF c0.params_for_body # None
                  THEN Some(form(c0.params_for_body[1], c0.order))
                  ELSE None]
      c1 == [c0 EXCEPT !.md5 = md5, !.hmac_data = signature.data, !.signature = Some(signature)]
  IN IF ~HeaderValue_is_valid(credentials.api_key)
     THEN Failed(c1, [kind |-> "InvalidHeaderValue"])
     ELSE [c1 EXCEPT !.pc = "sent", !.requests = Append(@, request)]

Signed(c0, credentials) ==
  LET method_setting == METHOD_SETTINGS[c0.method_name]
      md5 == post_parameter_md5_hashed_string(c0.params_for_signature, c0.order)
      signature == generate_signature(credentials, method_setting.http_method,
                                      c0.url_for_signature, c0.nonce,
                                      c0.params_for_signature, c0.order)
      headers ==
           ("X-API-KEY" :> Flat(credentials.api_key))
        @@ ("X-API-NONCE" :> c0.nonce)
        @@ ("X-API-SIGNATURE" :> signature)
        @@ (IF method_setting.http_method = "POST" /\ c0.params_for_body # None
            THEN ("Content-Type" :> "application/x-www-form-urlencoded")
            ELSE <<>>)
      request ==
        [method |-> method_setting.http_method,
         url |-> c0.url_for_request,
         headers |-> headers,
         body |-> IF c0.params_for_body # None
                  THEN Some(form(c0.params_for_body[1], c0.order))
                  ELSE None]
      c1 == [c0 EXCEPT !.md5 = md5, !.hmac_data = signature.data, !.signature = Some(signature)]
  IN IF ~HeaderValue_is_valid(credentials.api_key)
     THEN Failed(c1, [kind |-> "InvalidHeaderValue"])
     ELSE IF method_setting.http_method \notin {"GET", "POST", "DELETE"}
          THEN Failed(c1, [kind |-> "panic", message |-> "unreachable"])
          ELSE [c1 EXCEPT !.pc = "sent", !.requests = Append(@, request)]

\* a send step that builds the request from a parameter map shared by the calls
SignAndSend_shared(c) ==
  /\ call[c].pc = "nonced"
  /\ \E d \in Calls :
       call' = [call EXCEPT ![c] =
                  Signed([@ EXCEPT !.params_for_body = call[d].params_for_body],
                         api_credentials)]
  /\ transmitted_nonce' = IF call'[c].requests # <<>>
                          THEN Some(call'[c].requests[1].headers["X-API-NONCE"])
                          ELSE transmitted_nonce
  /\ UNCHANGED <<api_credentials, clock, backend, cli, from_str_call, csv>>

SignAndSend(c) ==
  /\ call[c].pc = "nonced"
  /\ call' = [call EXCEPT ![c] = Signed(@, api_credentials)]
  /\ transmitted_nonce' = IF call'[c].requests # <<>>
                          THEN Some(call'[c].requests[1].headers["X-API-NONCE"])
                          ELSE transmitted_nonce
  /\ UNCHANGED <<api_credentials, clock, backend, cli, from_str_call, csv>>

(***************************************************************************)
(* do_request, lines 265-281: the response                                 *)
(***************************************************************************)
\* a failed send that is tried again instead of ending the call
SendFails_retry(c) ==
  /\ call[c].pc = "sent"
  /\ Len(call[c].requests) < 3
  /\ call' = [call EXCEPT ![c] = [@ EXCEPT !.requests = Append(@, @[1])]]
  /\ UNCHANGED <<api_credentials, clock, transmitted_nonce, backend, cli, from_str_call, csv>>

\* request_builder.send().await fails
SendFails(c) ==
  /\ call[c].pc = "sent"
  /\ call' = [call EXCEPT ![c] = Failed(@, [kind |-> "Reqwest"])]
  /\ UNCHANGED <<api_credentials, clock, transmitted_nonce, backend, cli, from_str_call, csv>>

\* request_builder.send().await returns a response with a status
SendCompletes(c) ==
  /\ call[c].pc = "sent"
  /\ \E status \in StatusCodes :
       call' = [call EXCEPT ![c] = [@ EXCEPT !.pc = "responded", !.status_code = status]]
  /\ UNCHANGED <<api_credentials, clock, transmitted_nonce, backend, cli, from_str_call, csv>>

\* response.text().await fails
TextFails(c) ==
  /\ call[c].pc = "responded"
  /\ call' = [call EXCEPT ![c] = Failed(@, [kind |-> "Reqwest"])]
  /\ UNCHANGED <<api_credentials, clock, transmitted_nonce, backend, cli, from_str_call, csv>>

\* lines 272-281
Classified(status_code, response_text) ==
  IF ~is_success(status_code)
  THEN api_error(status_code, response_text)
  ELSE LET deserialized_response == from_str_T(response_text)
       IN IF deserialized_response = None
          THEN [kind |-> "Json"]
          ELSE [kind |-> "Ok", value |-> deserialized_response[1]]

\* response.text().await returns the body
TextCompletes(c) ==
  /\ call[c].pc = "responded"
  /\ \E response_text \in Bodies :
       call' = [call EXCEPT ![c] =
                  [@ EXCEPT !.pc = "done",
                            !.response_text = Some(response_text),
                            !.result = Some(Classified(call[c].status_code, response_text))]]
  /\ UNCHANGED <<api_credentials, clock, transmitted_nonce, backend, cli, from_str_call, csv>>

\* the caller takes the result; the slot is free for the next call
Return(c) ==
  /\ call[c].pc = "done"
  /\ call' = [call EXCEPT ![c] = NoCall]
  /\ UNCHANGED <<api_credentials, clock, transmitted_nonce, backend, cli, from_str_call, csv>>

(***************************************************************************)
(* The system clock: it advances, and it can be set                        *)
(***************************************************************************)
Tick ==
  /\ clock + 1 \in ClockValues
  /\ clock' = clock + 1
  /\ UNCHANGED <<api_credentials, call, transmitted_nonce, backend, cli, from_str_call, csv>>

ClockSet ==
  /\ \E t \in ClockValues : t # clock /\ clock' = t
  /\ UNCHANGED <<api_credentials, call, transmitted_nonce, backend, cli, from_str_call, csv>>

Step(c) ==
  \/ Invoke(c)
  \/ GenerateNonce(c)
  \/ SignAndSend(c)
  \/ SendFails(c)
  \/ SendCompletes(c)
  \/ TextFails(c)
  \/ TextCompletes(c)
  \/ Return(c)

\* one call at a time: the calls of a sequential caller
Next ==
  \/ Step(1)
  \/ Tick
  \/ ClockSet

Spec == Init /\ [][Next]_vars

(***************************************************************************)
(* Concurrent calls on one shared client (&self behind an Arc): both slots *)
(* run a call each, in any interleaving                                    *)
(***************************************************************************)
ConcurrentMethods == {"showRates", "createOrder"}

ConcurrentInputs ==
  {Some([trading_pair |-> <<"btceur">>]),
   Some([trading_pair |-> <<"btceur">>, type |-> <<"buy">>])}

\* a task calls do_request
InvokeConcurrent(c) ==
  /\ call[c].pc = "idle"
  /\ \E method_name \in ConcurrentMethods, parameters \in ConcurrentInputs :
       do_request(c, method_name, parameters)
  /\ UNCHANGED <<api_credentials, clock, transmitted_nonce, backend, cli, from_str_call, csv>>

StepConcurrent(c) ==
  \/ InvokeConcurrent(c)
  \/ GenerateNonce(c)
  \/ SignAndSend(c)
  \/ SendFails(c)
  \/ SendCompletes(c)
  \/ TextFails(c)
  \/ TextCompletes(c)

NextConcurrent ==
  \/ \E c \in Calls : StepConcurrent(c)
  \/ Tick
  \/ ClockSet

SpecConcurrent == Init /\ [][NextConcurrent]_vars

(***************************************************************************)
(* The backend binary (backend/main.rs, backend/handler.rs): one request   *)
(* at a time; the handler's call of the SDK runs in slot 1.  A path is     *)
(* the sequence of its segments; "{name}" in a route captures one segment. *)
(***************************************************************************)
\* the routes of the Router, in the order they are added (main.rs 51-57)
ROUTES ==
  <<[path |-> <<>>, handler |-> "hello_world"],
    [path |-> <<"api", "v4", "account", "info">>, handler |-> "handle_show_account_info"],
    [path |-> <<"api", "v4", "rates", "{trading_pair}">>,
     handler |-> "handle_show_account_info"]>>

is_capture(segment) == segment = "{trading_pair}"

\* the route matches the path of the request
matches(route_path, path) ==
  /\ Len(route_path) = Len(path)
  /\ \A i \in 1..Len(path) : is_capture(route_path[i]) \/ route_path[i] = path[i]

\* the handler the Router calls for the path, None when no route matches
route(path) ==
  IF \E i \in 1..Len(ROUTES) : matches(ROUTES[i].path, path)
  THEN Some(ROUTES[CHOOSE i \in 1..Len(ROUTES) : matches(ROUTES[i].path, path)].handler)
  ELSE None

\* what clients send in the place of the trading pair
PairStrings == {"btceur", "BTCEUR", "EthEur", "xyz"}

\* the paths of the GET requests the backend receives
BackendPaths ==
  {<<>>, <<"api", "v4", "account", "info">>, <<"api", "v4", "orders">>}
    \cup {<<"api", "v4", "rates", s>> : s \in PairStrings}

\* axum::serve: a GET request arrives and the Router picks the handler
BackendReceive ==
  /\ backend.pc = "listening"
  /\ \E path \in BackendPaths :
       backend' = IF route(path) = None
                  THEN [NoRequest EXCEPT !.pc = "replied", !.path = path,
                                         !.response = Some(404)]
                  ELSE [NoRequest EXCEPT !.pc = "handling", !.path = path,
                                         !.handler = route(path)[1]]
  /\ UNCHANGED <<api_credentials, clock, call, transmitted_nonce, cli, from_str_call, csv>>

\* handler.rs 83-95: handle_show_rates up to its call of the SDK
handle_show_rates(trading_pair_str) ==
  LET trading_pair == TradingPair_from_str(trading_pair_str)
  IN IF trading_pair = None
     THEN /\ backend' = [backend EXCEPT !.pc = "replied", !.response = Some(400)]
          /\ UNCHANGED call
     ELSE /\ do_request(1, show_rates(trading_pair[1]).method_name,
                         show_rates(trading_pair[1]).parameters)
          /\ backend' = [backend EXCEPT
                           !.pc = "awaiting",
                           !.sdk_calls = Append(@, <<"show_rates", trading_pair[1]>>)]

\* handler.rs 30-35: handle_show_account_info up to its call of the SDK
handle_show_account_info ==
  /\ do_request(1, show_account_info.method_name, show_account_info.parameters)
  /\ backend' = [backend EXCEPT !.pc = "awaiting",
                                !.sdk_calls = Append(@, <<"show_account_info">>)]

\* main.rs 33-35
hello_world ==
  /\ backend' = [backend EXCEPT !.pc = "replied", !.response = Some(200)]
  /\ UNCHANGED call

\* the handler of the matched route runs up to its call of the SDK
HandlerRuns ==
  /\ backend.pc = "handling"
  /\ call[1].pc = "idle"
  /\ CASE backend.handler = "handle_show_account_info" -> handle_show_account_info
       [] backend.handler = "handle_show_rates" -> handle_show_rates(backend.path[4])
       [] OTHER -> hello_world
  /\ UNCHANGED <<api_credentials, clock, transmitted_nonce, cli, from_str_call, csv>>

\* handler.rs 37-60 and 97-105: the match on the result of the SDK
HandlerReturns ==
  /\ backend.pc = "awaiting"
  /\ call[1].pc = "done"
  /\ backend' = [backend EXCEPT
                   !.pc = "replied",
                   !.result = Some(call[1].result[1].kind),
                   !.response = IF call[1].result[1].kind = "Ok"
                                THEN Some(200)
                                ELSE Some(500)]
  /\ call' = [call EXCEPT ![1] = NoCall]
  /\ UNCHANGED <<api_credentials, clock, transmitted_nonce, cli, from_str_call, csv>>

\* the response is written; the server waits for the next request
BackendReplies ==
  /\ backend.pc = "replied"
  /\ backend' = NoRequest
  /\ UNCHANGED <<api_credentials, clock, call, transmitted_nonce, cli, from_str_call, csv>>

\* the steps of the SDK call a handler or the command line awaits
SdkStep ==
  \/ GenerateNonce(1)
  \/ SignAndSend(1)
  \/ SendFails(1)
  \/ SendCompletes(1)
  \/ TextFails(1)
  \/ TextCompletes(1)

NextBackend ==
  \/ BackendReceive
  \/ HandlerRuns
  \/ SdkStep
  \/ HandlerReturns
  \/ BackendReplies
  \/ Tick
  \/ ClockSet

SpecBackend == Init /\ [][NextBackend]_vars

(***************************************************************************)
(* csv_util::write_to_csv called again and again on one path.  A file is   *)
(* the sequence of its lines.                                              *)
(***************************************************************************)
CSV_HEADER ==
  "timestamp,trading_pair,rate_weighted,rate_weighted_3h,rate_weighted_12h,"
    \o "amount,value_weighted,value_weighted_3h,value_weighted_12h"

\* Display for f64, for a number of tenths that is not negative
f64_to_string(tenths) ==
  IF tenths % 10 = 0 THEN to_string(tenths \div 10)
  ELSE to_string(tenths \div 10) \o "." \o Digit[(tenths % 10) + 1]

\* the line writeln! writes for one tuple of data
format_row(row) ==
  Join(<<row[1], row[2]>> \o [i \in 1..7 |-> f64_to_string(row[i + 2])], ",")

\* the tuples the callers pass
CsvRows ==
  {<<"2023-01-01 12:00:00", "btceur", 500000, 495000, 490000, 5, 250000, 247500, 245000>>,
   <<"2023-01-01 12:00:01", "etheur", 0, 0, 0, 0, 0, 0, 0>>}

CsvData == UNION {[1..n -> CsvRows] : n \in 0..MaxRows}

\* the header for every call, also when the file exists
lines_of_always_header(file_exists, data) ==
  <<CSV_HEADER>> \o [i \in 1..Len(data) |-> format_row(data[i])]

\* lines 56-77: what the call writes to the BufWriter
lines_of(file_exists, data) ==
  (IF ~file_exists THEN <<CSV_HEADER>> ELSE <<>>)
    \o [i \in 1..Len(data) |-> format_row(data[i])]

\* one call of write_to_csv(file_path, data).  open fails and the call
\* returns the error; or the file is opened (and created when it does not
\* exist) and all lines reach it; or writing fails after the first k lines:
\* in writeln!, which returns the error, or when the BufWriter is dropped,
\* which does not.
write_to_csv_call(data) ==
  LET file_exists == csv.file # None
      before == IF file_exists THEN csv.file[1] ELSE <<>>
      lines == lines_of(file_exists, data)
  IN \/ csv' = [csv EXCEPT !.n = @ + 1, !.rows = None, !.result = Some("Err")]
     \/ csv' = [csv EXCEPT !.n = @ + 1,
                           !.file = Some(before \o lines),
                           !.rows = IF @ = None THEN None ELSE Some(@[1] \o data),
                           !.result = Some("Ok")]
     \/ \E k \in 0..(Len(lines) - 1), result \in {"Ok", "Err"} :
          csv' = [csv EXCEPT !.n = @ + 1,
                             !.file = Some(before \o SubSeq(lines, 1, k)),
                             !.rows = None,
                             !.result = Some(result)]

\* a caller calls write_to_csv
write_to_csv ==
  /\ csv.n < MaxWrites
  /\ \E data \in CsvData : write_to_csv_call(data)
  /\ UNCHANGED <<api_credentials, clock, call, transmitted_nonce, backend, cli, from_str_call>>

NextCsv == write_to_csv

SpecCsv == Init /\ [][NextCsv]_vars

(***************************************************************************)
(* The command line binary (main.rs, cli.rs, csv_util.rs) run with         *)
(* --showrates; its calls of the SDK run in slot 1.  Of what it prints,    *)
(* the error lines (stderr) are kept.  An f64 is modelled by the number of *)
(* tenths.  The run is short: the clock stays at its initial reading.      *)
(***************************************************************************)
\* str::split
RECURSIVE split(_, _)
split(t, sep) ==
  IF \E i \in 1..Len(t) : t[i] = sep
  THEN LET first == CHOOSE i \in 1..Len(t) : t[i] = sep /\ \A j \in 1..(i - 1) : t[j] # sep
       IN <<SubSeq(t, 1, first - 1)>> \o split(SubSeq(t, first + 1, Len(t)), sep)
  ELSE <<t>>

Whitespace == {" ", "\n"}

\* str::trim
RECURSIVE trim(_)
trim(t) ==
  IF t # <<>> /\ Head(t) \in Whitespace THEN trim(Tail(t))
  ELSE IF t # <<>> /\ t[Len(t)] \in Whitespace THEN trim(SubSeq(t, 1, Len(t) - 1))
  ELSE t

\* str::parse::<f64>().ok() on the amounts that occur, in tenths
parse_f64(t) ==
  CASE Flat(t) = "1.5" -> Some(15)
    [] Flat(t) = "0" -> Some(0)
    [] OTHER -> None

\* amounts.split(',').filter_map(|s| s.trim().parse::<f64>().ok()).collect()
RECURSIVE filter_map_parse(_)
filter_map_parse(items) ==
  IF items = <<>> THEN <<>>
  ELSE parse_f64(trim(Head(items))) \o filter_map_parse(Tail(items))

\* the values of --showrates and --amounts
PairItems == {<<"btceur">>, <<" ", "ETHEUR">>, <<"xyz">>}

AmountItems == {<<"1.5">>, <<"0">>, <<"abc">>}

ItemLists(items) == UNION {[1..n -> items] : n \in 1..MaxItems}

ShowratesArgs == {join(list, ",") : list \in ItemLists(PairItems)}

AmountsArgs == {None} \cup {Some(join(list, ",")) : list \in ItemLists(AmountItems)}

\* the value of --csv
CsvOutputs == {None, Some("rates.csv")}

\* Decimal::to_f64 of the rates of the responses, in tenths
to_f64(decimal) ==
  CASE decimal = "0" -> 0
    [] decimal = "50000.00" -> 500000
    [] decimal = "49950.00" -> 499500
    [] decimal = "49900.00" -> 499000

\* Local::now().format("%Y-%m-%d %H:%M:%S"), in UTC: the clock values of the
\* model lie in the second before and the second after the epoch
format_timestamp(now) ==
  IF now < 0 THEN "1969-12-31 23:59:59" ELSE "1970-01-01 00:00:00"

\* csv_util.rs 187-213: the tuple pushed to csv_data for a response
csv_row(now, trading_pair_str, response, amount_opt) ==
  LET rate_weighted == to_f64(response.rate_weighted)
      rate_weighted_3h == to_f64(response.rate_weighted_3h)
      rate_weighted_12h == to_f64(response.rate_weighted_12h)
  IN IF amount_opt # None
     THEN <<format_timestamp(now), trading_pair_str,
            rate_weighted, rate_weighted_3h, rate_weighted_12h, amount_opt[1],
            (amount_opt[1] * rate_weighted) \div 10,
            (amount_opt[1] * rate_weighted_3h) \div 10,
            (amount_opt[1] * rate_weighted_12h) \div 10>>
     ELSE <<format_timestamp(now), trading_pair_str,
            rate_weighted, rate_weighted_3h, rate_weighted_12h, 0, 0, 0, 0>>

\* main.rs 14-32 and 68-81: the arguments are parsed and the loop is entered
CliMain ==
  /\ cli.pc = "start"
  /\ \E showrates \in ShowratesArgs, amounts \in AmountsArgs, csv_output \in CsvOutputs :
       cli' = [NoRun EXCEPT
                 !.pc = "loop",
                 !.csv_output = csv_output,
                 !.trading_pairs = split(showrates, ","),
                 !.amounts = IF amounts = None
                             THEN <<>>
                             ELSE filter_map_parse(split(amounts[1], ","))]
  /\ UNCHANGED <<api_credentials, clock, call, transmitted_nonce, backend, from_str_call, csv>>

\* the amount of pass i + 1 when there is one above zero (lines 118-122)
amount_opt_of(run) ==
  IF run.i < Len(run.amounts) /\ run.amounts[run.i + 1] > 0
  THEN Some(run.amounts[run.i + 1])
  ELSE None

\* csv_util.rs 114-152: one pass of the loop of get_rates_for_csv up to the
\* call of the SDK, or to the end of the pass when the SDK is not called
get_rates_for_csv ==
  /\ cli.pc = "loop"
  /\ cli.i < Len(cli.trading_pairs)
  /\ call[1].pc = "idle"
  /\ LET trading_pair_str == Flat(trim(cli.trading_pairs[cli.i + 1]))
         amount_opt == amount_opt_of(cli)
         trading_pair == TradingPair_from_str(trading_pair_str)
         dummy == [rate_weighted |-> "0", rate_weighted_3h |-> "0",
                   rate_weighted_12h |-> "0"]
     IN IF trading_pair = None
        THEN /\ cli' = [cli EXCEPT
                          !.i = @ + 1,
                          !.stderr = Append(@, <<cli.i + 1, "Invalid trading pair">>)]
             /\ UNCHANGED call
        ELSE IF amount_opt # None
             THEN /\ do_request(1, show_rates(trading_pair[1]).method_name,
                                 show_rates(trading_pair[1]).parameters)
                  /\ cli' = [cli EXCEPT !.pc = "awaiting",
                                        !.sdk_calls = Append(@, trading_pair[1])]
             ELSE /\ cli' = [cli EXCEPT
                               !.i = @ + 1,
                               !.csv_data =
                                  IF cli.csv_output # None
                                  THEN Append(@, csv_row(clock, trading_pair_str,
                                                         dummy, None))
                                  ELSE @]
                  /\ UNCHANGED call
  /\ UNCHANGED <<api_credentials, clock, transmitted_nonce, backend, from_str_call, csv>>

\* a pass that returns the error of show_rates to the caller
ShowRatesReturns_abort ==
  /\ cli.pc = "awaiting"
  /\ call[1].pc = "done"
  /\ cli' = IF call[1].result[1].kind = "Ok"
            THEN [cli EXCEPT !.pc = "loop", !.i = @ + 1]
            ELSE [cli EXCEPT !.pc = "exit", !.result = Some("Err")]
  /\ call' = [call EXCEPT ![1] = NoCall]
  /\ UNCHANGED <<api_credentials, clock, transmitted_nonce, backend, from_str_call, csv>>

\* csv_util.rs 154-217: the match on the result of show_rates; the pass ends
ShowRatesReturns ==
  /\ cli.pc = "awaiting"
  /\ call[1].pc = "done"
  /\ LET trading_pair_str == Flat(trim(cli.trading_pairs[cli.i + 1]))
         show_rates_result == call[1].result[1]
     IN cli' = IF show_rates_result.kind = "Ok"
               THEN [cli EXCEPT
                       !.pc = "loop", !.i = @ + 1,
                       !.csv_data =
                          IF cli.csv_output # None
                          THEN Append(@, csv_row(clock, trading_pair_str,
                                                 show_rates_result.value, amount_opt_of(cli)))
                          ELSE @]
               ELSE [cli EXCEPT
                       !.pc = "loop", !.i = @ + 1,
                       !.stderr = Append(@, <<cli.i + 1, "Error during showRates",
                                              show_rates_result.kind>>)]
  /\ call' = [call EXCEPT ![1] = NoCall]
  /\ UNCHANGED <<api_credentials, clock, transmitted_nonce, backend, from_str_call, csv>>

\* csv_util.rs 222-231: the loop is over, the collected rows are written
CliExits ==
  /\ cli.pc = "loop"
  /\ cli.i = Len(cli.trading_pairs)
  /\ IF cli.csv_output # None /\ cli.csv_data # <<>>
     THEN /\ write_to_csv_call(cli.csv_data)
          /\ cli' = [cli EXCEPT
                       !.pc = "exit", !.result = Some("Ok"),
                       !.stderr = IF csv'.result = Some("Err")
                                  THEN Append(@, <<"Error writing to CSV file">>)
                                  ELSE @]
     ELSE /\ cli' = [cli EXCEPT !.pc = "exit", !.result = Some("Ok")]
          /\ UNCHANGED csv
  /\ UNCHANGED <<api_credentials, clock, call, transmitted_nonce, backend, from_str_call>>

NextCli ==
  \/ CliMain
  \/ get_rates_for_csv
  \/ SdkStep
  \/ ShowRatesReturns
  \/ CliExits

SpecCli == Init /\ [][NextCli]_vars

(***************************************************************************)
(* TradingPair::from_str called on its own.  The input is a text whose     *)
(* atoms are single characters.                                            *)
(***************************************************************************)
\* the spellings of a text in upper and lower case letters
RECURSIVE CaseVariations(_)
CaseVariations(t) ==
  IF t = <<>> THEN {<<>>}
  ELSE {<<h>> \o rest : h \in {Head(t), to_ascii_lowercase(Head(t))},
                         rest \in CaseVariations(Tail(t))}

Variants == {TradingPair(ALL_TRADING_PAIRS[i]) : i \in 1..Len(ALL_TRADING_PAIRS)}

\* every spelling of every variant, and strings that spell no variant: the
\* empty string, a variant cut short, with one more letter, with a blank
\* before or after it, with a digit for a letter, and another word
FromStrInputs ==
  UNION {CaseVariations(chars[as_str(p)]) : p \in Variants}
    \cup {<<>>, <<"x", "y", "z">>, <<"B", "T", "C", "E", "U", "R", "O">>,
          <<"8", "T", "C", "E", "U", "R">>}
    \cup UNION {{SubSeq(chars[as_str(p)], 1, Len(chars[as_str(p)]) - 1),
                 SubSeq(chars[as_str(p)], 2, Len(chars[as_str(p)])),
                 <<" ">> \o chars[as_str(p)],
                 chars[as_str(p)] \o <<"\n">>} : p \in Variants}

\* a caller calls TradingPair::from_str(s)
CallFromStr ==
  /\ from_str_call = NoParse
  /\ \E s \in FromStrInputs :
       from_str_call' = [s |-> s, result |-> Some(from_str(s))]
  /\ UNCHANGED <<api_credentials, clock, call, transmitted_nonce, backend, cli, csv>>

NextFromStr == CallFromStr

SpecFromStr == Init /\ [][NextFromStr]_vars

(***************************************************************************)
(* Properties                                                              *)
(***************************************************************************)
Started(c) == call[c].pc # "idle"

Registered(c) == call[c].method_name \in DOMAIN METHOD_SETTINGS

\* the placeholders of the call's method that the parameter bag has no value for
MissingPlaceholders(c) ==
  Placeholders(METHOD_SETTINGS[call[c].method_name])
    \ DOMAIN unwrap_or_default(call[c].parameters)

\* C1: a call of a registered method whose parameter bag lacks a value for
\* some placeholder of the path ends with Error::MissingPathParameter naming
\* a placeholder that is missing, and has handed no request to the transport.
C1_MissingPathParameter ==
  \A c \in Calls :
    (Started(c) /\ Registered(c) /\ MissingPlaceholders(c) # {})
      => /\ call[c].pc = "done"
         /\ call[c].result # None
         /\ call[c].result[1].kind = "MissingPathParameter"
         /\ call[c].result[1].name \in MissingPlaceholders(c)
         /\ call[c].requests = <<>>

\* a call of deleteOrder that supplies trading_pair but not order_id has failed
C1_Witness ==
  \E c \in Calls :
    /\ call[c].method_name = "deleteOrder"
    /\ DOMAIN unwrap_or_default(call[c].parameters) = {"trading_pair", "type"}
    /\ call[c].pc = "done"
    /\ call[c].result = Some([kind |-> "MissingPathParameter", name |-> "order_id"])

\* C2: a call with a method name that is not a key of the registry ends at
\* once with Error::MethodNotFound carrying that name, whatever the bag; it
\* never ends with a transport error and hands no request to the transport.
C2_MethodNotFound ==
  \A c \in Calls :
    (Started(c) /\ ~Registered(c))
      => /\ call[c].pc = "done"
         /\ call[c].result = Some([kind |-> "MethodNotFound", name |-> call[c].method_name])
         /\ call[c].requests = <<>>

\* "doesNotExist" was called with a bag of three parameters and has failed
C2_Witness ==
  \E c \in Calls :
    /\ call[c].method_name = "doesNotExist"
    /\ Cardinality(DOMAIN unwrap_or_default(call[c].parameters)) = 3
    /\ call[c].pc = "done"
    /\ call[c].result[1].kind = "MethodNotFound"

\* the verb of the call's method
Verb(c) == METHOD_SETTINGS[call[c].method_name].http_method

\* the supplied parameters that are no placeholder of the call's path
NonPlaceholderParams(c) ==
  LET params == unwrap_or_default(call[c].parameters)
  IN [n \in (DOMAIN params) \ Placeholders(METHOD_SETTINGS[call[c].method_name]) |-> params[n]]

\* the names in ascending byte order
Ascending(names) ==
  CHOOSE o \in Orders(names) : \A i, j \in 1..Len(o) : i < j => StrLess(o[i], o[j])

\* the call has computed its signature
HasSigned(c) == call[c].signature # None

\* the call has handed a request to the transport
HasSent(c) == call[c].requests # <<>>

\* C3: a call hands exactly one request to the transport once it reaches
\* the send step and none while or when it fails earlier; no step hands over
\* a second request, and a failure of the transport ends the call with
\* Error::Reqwest and the one request, without another attempt.
C3_ExactlyOneRequest ==
  /\ [](\A c \in Calls :
          LET reached_send ==
                \/ call[c].pc \in {"sent", "responded"}
                \/ /\ call[c].pc = "done"
                   /\ call[c].result[1].kind \in {"Reqwest", "Api", "Json", "Ok"}
          IN Len(call[c].requests) = IF reached_send THEN 1 ELSE 0)
  /\ [][\A c \in Calls :
          /\ (call'[c].requests # call[c].requests /\ call'[c].pc # "idle")
               => (call[c].pc = "nonced" /\ call[c].requests = <<>>)
          /\ (call[c].pc = "sent" /\ call'[c].pc # "sent")
               => \/ call'[c].pc = "responded"
                  \/ /\ call'[c].pc = "done"
                     /\ call'[c].result = Some([kind |-> "Reqwest"])
                     /\ call'[c].requests = call[c].requests]_vars

\* the one request of a call failed in the transport
C3_Witness ==
  \E c \in Calls :
    /\ call[c].pc = "done"
    /\ call[c].result = Some([kind |-> "Reqwest"])
    /\ call[c].status_code = 0
    /\ Len(call[c].requests) = 1

\* C4: the string the HMAC is computed over is the verb in upper case, the
\* signature URL, the API key, the nonce and the body digest, in this order,
\* joined by "#", with nothing added and nothing left out.
C4_CanonicalString ==
  \A c \in Calls :
    HasSigned(c)
      => /\ Verb(c) \in {"GET", "POST", "DELETE"}
         /\ call[c].hmac_data =
              Join(<<Verb(c), call[c].url_for_signature, Flat(api_credentials.api_key),
                     call[c].nonce, call[c].md5>>, "#")
         /\ call[c].signature[1].data = call[c].hmac_data
         /\ call[c].signature[1].key = api_credentials.api_secret
         /\ (/\ call[c].method_name = "showRates"
             /\ call[c].parameters = Some([trading_pair |-> <<"btceur">>])
             /\ call[c].nonce = "9"
             /\ api_credentials.api_key = <<"KEY1">>)
              => call[c].hmac_data =
                   "GET#https://api.bitcoin.de/v4/btceur/rates#KEY1#9#d41d8cd98f00b204e9800998ecf8427e"

\* a createOrder call with two body parameters was signed at time 10
C4_Witness ==
  \E c \in Calls :
    /\ call[c].pc = "sent"
    /\ call[c].hmac_data =
         "POST#https://api.bitcoin.de/v4/btceur/orders#KEY1#10#md5(price=100.00&type=buy)"

\* C5: the signature is a function of the verb, the signature URL, the nonce,
\* the body parameters, the API key and the secret: whatever the order in
\* which the parameter map is iterated, signing these inputs gives the
\* signature the call computed; and the step that signs changes neither the
\* credentials nor the clock nor another call.
C5_SigningDeterministic ==
  /\ [](\A c \in Calls :
          HasSigned(c)
            => \A order \in Orders(DOMAIN call[c].remaining_params) :
                 generate_signature(api_credentials, Verb(c), call[c].url_for_signature,
                                    call[c].nonce, call[c].params_for_signature, order)
                   = call[c].signature[1])
  /\ [][\A c \in Calls :
          (~HasSigned(c) /\ call'[c].signature # None)
            => /\ api_credentials' = api_credentials
               /\ clock' = clock
               /\ \A d \in Calls \ {c} : call'[d] = call[d]]_vars

\* a POST call was signed whose two body parameters are iterated in descending order
C5_Witness ==
  \E c \in Calls :
    /\ HasSigned(c)
    /\ Verb(c) = "POST"
    /\ call[c].order = <<"type", "price">>
    /\ call[c].remaining_params["type"] = <<"a", "&", "b", "=", " ", "c">>

\* C6: the body digest does not depend on the order in which the parameter
\* map is iterated: under every order the pairs are sorted by name in
\* ascending byte order before they are encoded, and the digest is the one
\* the call computed.
C6_DigestOrderIndependent ==
  \A c \in Calls :
    (HasSigned(c) /\ call[c].params_for_signature # None)
      => \A order \in Orders(DOMAIN call[c].params_for_signature[1]) :
           LET sorted == sort_by_key(iter(call[c].params_for_signature[1], order))
           IN /\ \A i, j \in 1..Len(sorted) : i < j => StrLess(sorted[i][1], sorted[j][1])
              /\ {sorted[i] : i \in 1..Len(sorted)}
                   = {<<n, call[c].params_for_signature[1][n]>> :
                        n \in DOMAIN call[c].params_for_signature[1]}
              /\ post_parameter_md5_hashed_string(call[c].params_for_signature, order)
                   = call[c].md5

\* a createOrder call was signed whose body parameters are iterated as type, price
C6_Witness ==
  \E c \in Calls :
    /\ HasSigned(c)
    /\ call[c].method_name = "createOrder"
    /\ call[c].params_for_signature # None
    /\ call[c].order = <<"type", "price">>
    /\ call[c].md5 = "md5(price=100.00&type=buy)"

\* C7: when no body parameters are signed (every GET and DELETE call, with or
\* without query parameters, and every POST call that has no parameter besides
\* the placeholders) the digest field of the canonical string is
\* d41d8cd98f00b204e9800998ecf8427e.
C7_EmptyBodyDigest ==
  \A c \in Calls :
    (HasSigned(c) /\ (Verb(c) \in {"GET", "DELETE"} \/ NonPlaceholderParams(c) = EmptyMap))
      => /\ call[c].md5 = "d41d8cd98f00b204e9800998ecf8427e"
         /\ call[c].hmac_data =
              Join(<<Verb(c), call[c].url_for_signature, Flat(api_credentials.api_key),
                     call[c].nonce>>, "#") \o "#d41d8cd98f00b204e9800998ecf8427e"

\* a GET call with two query parameters was signed
C7_Witness ==
  \E c \in Calls :
    /\ HasSigned(c)
    /\ Verb(c) = "GET"
    /\ DOMAIN NonPlaceholderParams(c) = {"type", "price"}
    /\ call[c].md5 = EMPTY_MD5

\* C8: the request of a GET or DELETE call has no body and no form content
\* type, its query string is the form encoding of the parameters that are no
\* placeholders (in some order), and the URL of the canonical string is the
\* full URL of the request, query string included.
C8_GetDeleteQuery ==
  \A c \in Calls :
    (HasSent(c) /\ Verb(c) \in {"GET", "DELETE"})
      => LET request == call[c].requests[1]
             remaining == NonPlaceholderParams(c)
         IN /\ request.method = Verb(c)
            /\ request.body = None
            /\ "Content-Type" \notin DOMAIN request.headers
            /\ remaining # EmptyMap
                 => \E order \in Orders(DOMAIN remaining) :
                      request.url.query
                        = Some(Flat(serde_urlencoded_to_string(iter(remaining, order))))
            /\ call[c].url_for_signature = Url_to_string(request.url)
            /\ call[c].hmac_data =
                 Join(<<Verb(c), Url_to_string(request.url), Flat(api_credentials.api_key),
                        call[c].nonce, call[c].md5>>, "#")
            /\ (/\ call[c].method_name = "showOrderbook"
                /\ call[c].parameters = Some([trading_pair |-> <<"btceur">>,
                                              type |-> <<"a", "&", "b", "=", " ", "c">>]))
                 => call[c].url_for_signature
                      = "https://api.bitcoin.de/v4/btceur/orderbook?type=a%26b%3D+c"

\* a DELETE request with a query string was sent
C8_Witness ==
  \E c \in Calls :
    /\ HasSent(c)
    /\ call[c].requests[1].method = "DELETE"
    /\ call[c].url_for_signature = "https://api.bitcoin.de/v4/btceur/orders/42?type=buy"

\* C9: the request of a POST call has no query string, the URL of the
\* canonical string is the base path, and the parameters that are no
\* placeholders are sent as the form-encoded body, with the form content type
\* exactly when there is such a body.
C9_PostBody ==
  \A c \in Calls :
    (HasSent(c) /\ Verb(c) = "POST")
      => LET request == call[c].requests[1]
             remaining == NonPlaceholderParams(c)
         IN /\ request.method = "POST"
            /\ request.url.query = None
            /\ call[c].url_for_signature = call[c].base_url_path
            /\ IF remaining = EmptyMap
               THEN /\ request.body = None
                    /\ "Content-Type" \notin DOMAIN request.headers
               ELSE /\ \E order \in Orders(DOMAIN remaining) :
                         request.body
                           = Some(Flat(serde_urlencoded_to_string(iter(remaining, order))))
                    /\ "Content-Type" \in DOMAIN request.headers
                    /\ request.headers["Content-Type"] = "application/x-www-form-urlencoded"

\* C10: the digest of a POST call with body parameters is taken over the
\* parameters that are no placeholders of the path, encoded as name=value
\* pairs joined by "&" in ascending order of the names; createOrder with
\* type = buy and price = 100.00 is digested as price=100.00&type=buy.
C10_PostDigest ==
  \A c \in Calls :
    (HasSigned(c) /\ Verb(c) = "POST" /\ NonPlaceholderParams(c) # EmptyMap)
      => LET remaining == NonPlaceholderParams(c)
             ascending == Ascending(DOMAIN remaining)
             encoded == Join([i \in 1..Len(ascending) |->
                                ascending[i] \o "=" \o Flat(FormEncodeText(remaining[ascending[i]]))],
                             "&")
         IN /\ call[c].md5 = md5_hex(encoded)
            /\ (/\ call[c].method_name = "createOrder"
                /\ call[c].parameters = Some([trading_pair |-> <<"btceur">>,
                                              type |-> <<"buy">>, price |-> <<"100.00">>]))
                 => call[c].md5 = md5_hex("price=100.00&type=buy")

\* createOrder with trading_pair, type and price was signed
C10_Witness ==
  \E c \in Calls :
    /\ HasSigned(c)
    /\ call[c].method_name = "createOrder"
    /\ DOMAIN unwrap_or_default(call[c].parameters) = {"trading_pair", "type", "price"}
    /\ call[c].md5 = "md5(price=100.00&type=buy)"

(***************************************************************************)
(* Headers of the request, and the result for a response                   *)
(***************************************************************************)
AuthHeaders == {"X-API-KEY", "X-API-NONCE", "X-API-SIGNATURE"}

\* the response of the call has been read: its status and its body text
HasResponse(c) == call[c].pc = "done" /\ call[c].response_text # None

\* an object with an errors list of numbers and a messages list of strings
IsApiErrorShape(json) ==
  /\ json # None
  /\ json[1].t = "obj"
  /\ "errors" \in DOMAIN json[1].v
  /\ "messages" \in DOMAIN json[1].v
  /\ json[1].v["errors"].t = "arr"
  /\ json[1].v["messages"].t = "arr"
  /\ \A i \in 1..Len(json[1].v["errors"].v) : json[1].v["errors"].v[i].t = "num"
  /\ \A i \in 1..Len(json[1].v["messages"].v) : json[1].v["messages"].v[i].t = "str"

\* C11: every request handed to the transport carries the headers X-API-KEY,
\* X-API-NONCE and X-API-SIGNATURE: the key is the API key of the client, the
\* nonce is the nonce that stands in the canonical string the call signed,
\* and the signature is the HMAC of that string under the secret.
C11_AuthHeaders ==
  \A c \in Calls :
    \A i \in 1..Len(call[c].requests) :
      LET request == call[c].requests[i]
      IN /\ AuthHeaders \subseteq DOMAIN request.headers
         /\ request.headers["X-API-KEY"] = Flat(api_credentials.api_key)
         /\ call[c].hmac_data =
              Join(<<Verb(c), call[c].url_for_signature, Flat(api_credentials.api_key),
                     request.headers["X-API-NONCE"], call[c].md5>>, "#")
         /\ request.headers["X-API-NONCE"] = call[c].nonce
         /\ request.headers["X-API-SIGNATURE"] =
              hmac_sha256_hex(api_credentials.api_secret, call[c].hmac_data)

\* a showRates request went out at time 10 with the three headers
C11_Witness ==
  \E c \in Calls :
    /\ call[c].pc = "sent"
    /\ call[c].method_name = "showRates"
    /\ Len(call[c].requests) = 1
    /\ call[c].requests[1].headers["X-API-KEY"] = "KEY1"
    /\ call[c].requests[1].headers["X-API-NONCE"] = "10"
    /\ call[c].requests[1].headers["X-API-SIGNATURE"].data =
         "GET#https://api.bitcoin.de/v4/btceur/rates#KEY1#10#d41d8cd98f00b204e9800998ecf8427e"

\* C12: when the response that was read has a status that is no success
\* status, the call returns Error::Api with that status and the raw body;
\* api_error_details is Some exactly when the body is an object with an
\* errors list of numbers and a messages list of strings, and None otherwise
\* (the Api error stays an Api error); status 400 with errors [5] gives the
\* detail with code 5.
C12_ApiError ==
  \A c \in Calls :
    (HasResponse(c) /\ ~(call[c].status_code \in 200..299))
      => LET body == call[c].response_text[1]
             result == call[c].result[1]
         IN /\ result.kind = "Api"
            /\ result.status = call[c].status_code
            /\ result.body = body.raw
            /\ (result.api_error_details # None) <=> IsApiErrorShape(body.json)
            /\ IsApiErrorShape(body.json)
                 => /\ Len(result.api_error_details[1].errors)
                        = Len(body.json[1].v["errors"].v)
                    /\ \A i \in 1..Len(body.json[1].v["errors"].v) :
                         result.api_error_details[1].errors[i]
                           = body.json[1].v["errors"].v[i].v
                    /\ Len(result.api_error_details[1].messages)
                        = Len(body.json[1].v["messages"].v)
                    /\ \A i \in 1..Len(body.json[1].v["messages"].v) :
                         result.api_error_details[1].messages[i]
                           = body.json[1].v["messages"].v[i].v
            /\ (call[c].status_code = 400 /\ body = ErrorBody)
                 => result.api_error_details =
                      Some([errors |-> <<5>>, messages |-> <<"missing parameter">>])

\* a 400 response whose body is JSON, with an errors list, but no error body
C12_Witness ==
  \E c \in Calls :
    /\ HasResponse(c)
    /\ call[c].status_code = 400
    /\ call[c].response_text = Some(RatesBody)
    /\ call[c].result[1].kind = "Api"
    /\ call[c].result[1].api_error_details = None

\* C13: when the response that was read has a success status, the call
\* returns Ok with the decoded value if the body deserializes into the result
\* type and Error::Json otherwise; a success status never gives Error::Api,
\* and any other status never gives Ok or Error::Json.
C13_SuccessResult ==
  \A c \in Calls :
    /\ (HasResponse(c) /\ call[c].status_code \in 200..299)
         => LET body == call[c].response_text[1]
                result == call[c].result[1]
            IN IF from_str_T(body) # None
               THEN result = [kind |-> "Ok", value |-> from_str_T(body)[1]]
               ELSE result = [kind |-> "Json"]
    /\ (call[c].pc = "done" /\ call[c].status_code \in 200..299)
         => call[c].result[1].kind # "Api"
    /\ (call[c].pc = "done" /\ call[c].status_code # 0
           /\ ~(call[c].status_code \in 200..299))
         => call[c].result[1].kind \notin {"Ok", "Json"}

\* a 200 response with the body of an error, which is no result
C13_Witness ==
  \E c \in Calls :
    /\ HasResponse(c)
    /\ call[c].status_code = 200
    /\ call[c].response_text = Some(ErrorBody)
    /\ call[c].result = Some([kind |-> "Json"])

(***************************************************************************)
(* The nonces a server sees from one client                                *)
(***************************************************************************)
\* the number a nonce denotes
parse_nonce(nonce) == CHOOSE n \in 0..MaxClock : to_string(n) = nonce

\* call c hands its request to the transport in this step
Transmits(c) == call[c].requests = <<>> /\ call'[c].requests # <<>>

\* C14: of two calls made one after the other on one client, the second
\* transmits a nonce that is, as a number, at least the nonce the first
\* transmitted.
C14_NonceNonDecreasing ==
  [][\A c \in Calls :
       (Transmits(c) /\ transmitted_nonce # None)
         => parse_nonce(call'[c].requests[1].headers["X-API-NONCE"])
              >= parse_nonce(transmitted_nonce[1])]_vars

(***************************************************************************)
(* The wrappers and the registry; the base URL                             *)
(***************************************************************************)
\* the call in slot c is the do_request call a wrapper makes for these arguments
IsCallOf(c, arguments) ==
  /\ Started(c)
  /\ call[c].method_name = arguments.method_name
  /\ call[c].parameters = arguments.parameters

\* the call in slot c ended before a URL was built and split by verb
FailedInConstruction(c) ==
  /\ call[c].pc = "done"
  /\ call[c].result[1].kind \in {"MethodNotFound", "MissingPathParameter", "Url", "UrlEncoded"}

\* C16: the method name a typed wrapper passes to do_request is a key of
\* the registry: no call made with the method name of a wrapper returns
\* Error::MethodNotFound.
C16_WrappersRegistered ==
  \A c \in Calls :
    \A w \in DOMAIN WRAPPER_METHOD :
      (Started(c) /\ call[c].method_name = WRAPPER_METHOD[w] /\ call[c].pc = "done")
        => call[c].result[1].kind # "MethodNotFound"

\* C17: show_my_orders and show_my_trades called with trading_pair = None
\* build a request: the call does not fail during request construction.
C17_AllPairs ==
  \A c \in Calls :
    \A params \in {ps \in ParameterInputs : "trading_pair" \notin DOMAIN unwrap_or_default(ps)} :
      (IsCallOf(c, show_my_orders(None, params)) \/ IsCallOf(c, show_my_trades(None, params)))
        => ~FailedInConstruction(c)

\* C18: when every placeholder has a value, the base URL of the call is the
\* base URI without its trailing slash, "/", and the path segments of the
\* method in registry order joined by "/", each literal segment as it is
\* and each placeholder replaced by its value as it is (nothing encoded);
\* showRates with trading_pair = btceur gives {base}/btceur/rates.
C18_BaseUrl ==
  \A c \in Calls :
    (Started(c) /\ Registered(c) /\ MissingPlaceholders(c) = {})
      => LET segments == METHOD_SETTINGS[call[c].method_name].path_segments
             params == unwrap_or_default(call[c].parameters)
             base == SubSeq(API_BASE_URI, 1, Len(API_BASE_URI) - 1)
             Piece(i) == IF Head(segments[i]) = ":"
                         THEN Flat(params[Flat(Tail(segments[i]))])
                         ELSE Flat(segments[i])
         IN /\ API_BASE_URI[Len(API_BASE_URI)] = "/"
            /\ base[Len(base)] # "/"
            /\ call[c].base_url_path =
                 Flat(base) \o "/" \o Join([i \in 1..Len(segments) |-> Piece(i)], "/")
            /\ (/\ call[c].method_name = "showRates"
                /\ "trading_pair" \in DOMAIN params
                /\ params["trading_pair"] = <<"btceur">>)
                 => call[c].base_url_path = "https://api.bitcoin.de/v4/btceur/rates"

\* createOrder for a trading pair with "?" and a space in it: the value stands
\* in the base URL as it was given
C18_Witness ==
  \E c \in Calls :
    /\ call[c].pc = "prepared"
    /\ call[c].method_name = "createOrder"
    /\ call[c].base_url_path = "https://api.bitcoin.de/v4/btc?x y/orders"

(***************************************************************************)
(* Concurrent calls                                                        *)
(***************************************************************************)
\* the requests and the result of a call that runs alone on the client with
\* the method, parameters, iteration order, nonce and response of call c0
RunAlone(credentials, c0) ==
  LET entered == [NoCall EXCEPT !.method_name = c0.method_name,
                                !.parameters = c0.parameters]
      method_setting == METHOD_SETTINGS[c0.method_name]
      params == unwrap_or_default(c0.parameters)
      path_params_map == path_params_map_of(method_setting, params)
      remaining_params == remaining_params_of(params, path_params_map)
      built == build_url_path(method_setting, path_params_map)
      prepared == Prepared(entered, method_setting, built.final_path,
                           remaining_params, c0.order)
      nonced == [prepared EXCEPT !.pc = "nonced", !.nonce = c0.nonce]
      sent == Signed(nonced, credentials)
  IN [requests |-> sent.requests,
      result |-> IF c0.response_text # None
                 THEN Some(Classified(c0.status_code, c0.response_text[1]))
                 ELSE None]

\* C15: calls that run at the same time on one client share no state that
\* changes: no step changes the credentials (the registry is a constant),
\* a step of one call leaves the other call as it was, and the URL, the
\* body, the API-key header and the result of every call are those of the
\* same call run alone with the same nonce and the same response.
C15_NoSharedState ==
  /\ [](\A c \in Calls :
          HasSent(c)
            => LET alone == RunAlone(api_credentials, call[c])
                   request == call[c].requests[1]
               IN /\ Len(call[c].requests) = 1
                  /\ Len(alone.requests) = 1
                  /\ request.url = alone.requests[1].url
                  /\ request.body = alone.requests[1].body
                  /\ request.headers["X-API-KEY"] = alone.requests[1].headers["X-API-KEY"]
                  /\ HasResponse(c) => call[c].result = alone.result)
  /\ [][/\ api_credentials' = api_credentials
        /\ \A c, d \in Calls :
             (c # d /\ call'[c] # call[c]) => call'[d] = call[d]]_vars

\* a createOrder call got its result while a showRates call, which took the
\* same nonce, is still in flight
C15_Witness ==
  /\ call[1].method_name = "createOrder"
  /\ call[1].params_for_body # None
  /\ HasResponse(1)
  /\ call[2].method_name = "showRates"
  /\ call[2].pc = "sent"
  /\ call[2].nonce = call[1].nonce

(***************************************************************************)
(* The backend                                                             *)
(***************************************************************************)
\* the request in progress is a GET of /api/v4/rates/{trading_pair}
IsRatesRequest ==
  /\ backend.pc # "listening"
  /\ Len(backend.path) = 4
  /\ SubSeq(backend.path, 1, 3) = <<"api", "v4", "rates">>

\* C19: a GET of /api/v4/rates/{trading_pair} is handled by
\* handle_show_rates: for a path value that is no trading pair the answer is
\* 400 and the SDK is not called; for a trading pair the SDK is called once,
\* show_rates for that pair; an error of the SDK is answered with 500.
C19_RatesRoute ==
  IsRatesRequest
    => LET trading_pair == TradingPair_from_str(backend.path[4])
       IN /\ backend.pc \in {"handling", "awaiting", "replied"}
              => backend.handler = "handle_show_rates"
          /\ trading_pair = None
              => /\ backend.sdk_calls = <<>>
                 /\ backend.pc = "replied" => backend.response = Some(400)
          /\ (trading_pair # None /\ backend.pc \in {"awaiting", "replied"})
              => backend.sdk_calls = <<<<"show_rates", trading_pair[1]>>>>
          /\ (backend.pc = "replied" /\ backend.result # None /\ backend.result # Some("Ok"))
              => backend.response = Some(500)

(***************************************************************************)
(* The command line                                                        *)
(***************************************************************************)
\* the trading pairs among the items of --showrates, in their order
RECURSIVE ValidPairs(_)
ValidPairs(items) ==
  IF items = <<>> THEN <<>>
  ELSE TradingPair_from_str(Flat(trim(Head(items)))) \o ValidPairs(Tail(items))

\* C20: a run with --showrates calls show_rates once for every valid trading
\* pair of the list, in the order of the list, with or without --amounts.
C20_ShowRatesCalls ==
  cli.pc = "exit" => cli.sdk_calls = ValidPairs(cli.trading_pairs)

(***************************************************************************)
(* Nonces of concurrent calls                                              *)
(***************************************************************************)
\* C21: the client neither serializes concurrent calls nor orders their
\* nonces.  A call that is ready to take its nonce never waits for the other
\* call, and while the clock still reads what the other call read it takes
\* the very same nonce; a call that holds a nonce is never kept from sending
\* by a request of the other call that is already out, and it sends the nonce
\* it holds also when that is the smaller one.
C21_NoSerialization ==
  \A c, d \in Calls :
    c # d
      => /\ (call[c].pc = "prepared" /\ call[d].pc = "nonced")
              => /\ ENABLED GenerateNonce(c)
                 /\ (clock >= 0 /\ call[d].nonce = to_string(clock))
                      => ENABLED (GenerateNonce(c) /\ call'[c].nonce = call[d].nonce)
         /\ (call[c].pc = "nonced" /\ HasSent(d))
              => /\ ENABLED SignAndSend(c)
                 /\ HeaderValue_is_valid(api_credentials.api_key)
                      => ENABLED (/\ SignAndSend(c)
                                  /\ Transmits(c)
                                  /\ transmitted_nonce' = Some(call[c].nonce))

\* both calls have sent their requests; the call in slot 1 sent last, and
\* its nonce is the smaller one
C21_Witness ==
  /\ HasSent(1)
  /\ HasSent(2)
  /\ transmitted_nonce = Some(call[1].nonce)
  /\ parse_nonce(call[1].nonce) < parse_nonce(call[2].nonce)

(***************************************************************************)
(* Where the supplied parameters go                                        *)
(***************************************************************************)
\* C22: in a call that reaches the send step every supplied parameter is
\* used exactly once.  The value of a placeholder parameter stands in the
\* path of the request URL and in no other part of the request; the other
\* parameters, and only they, make up the query string (GET, DELETE) or the
\* body (POST), each once with its value; nothing is dropped or added.
C22_ParametersUsedOnce ==
  \A c \in Calls :
    HasSent(c)
      => LET request == call[c].requests[1]
             remaining == NonPlaceholderParams(c)
             \* the form encodings of the map, one for each order of its entries
             FormEncodings ==
               {Flat(serde_urlencoded_to_string(iter(remaining, order))) :
                  order \in Orders(DOMAIN remaining)}
             carried == IF remaining = EmptyMap
                        THEN {None}
                        ELSE {Some(e) : e \in FormEncodings}
             \* the path of the method with every placeholder replaced by
             \* the value supplied for it, after the base URI
             segments == METHOD_SETTINGS[call[c].method_name].path_segments
             params == unwrap_or_default(call[c].parameters)
             Piece(i) == IF starts_with(segments[i], ":")
                         THEN params[param_name_of(segments[i])]
                         ELSE segments[i]
             PathWithValues ==
               trim_end_matches(API_BASE_URI, "/") \o <<"/">>
                 \o join([i \in 1..Len(segments) |-> Piece(i)], "/")
         IN /\ request.url.path = EscapeWith(PathEscape, PathWithValues)
            /\ IF Verb(c) = "POST"
               THEN request.url.query = None /\ request.body \in carried
               ELSE request.url.query \in carried /\ request.body = None

(***************************************************************************)
(* The verbs of the registry                                               *)
(***************************************************************************)
\* C23: every entry of METHOD_SETTINGS has the verb GET, POST or DELETE, and
\* no call of a registered method ends with the "Unsupported HTTP method"
\* error or in the unreachable arm of the match that picks the request
\* builder; the request of the call has the verb of the registry entry.
C23_SupportedVerbs ==
  LET SupportedVerbs == {"GET", "POST", "DELETE"}
  IN
  /\ \A m \in DOMAIN METHOD_SETTINGS : METHOD_SETTINGS[m].http_method \in SupportedVerbs
  /\ \A c \in Calls :
       (Started(c) /\ Registered(c))
         => /\ call[c].pc = "done" => call[c].result[1].kind \notin {"Other", "panic"}
            /\ \A i \in 1..Len(call[c].requests) :
                 /\ call[c].requests[i].method = Verb(c)
                 /\ call[c].requests[i].method \in SupportedVerbs

\* a call of a DELETE method has sent its request
C23_Witness ==
  \E c \in Calls :
    /\ call[c].method_name = "deleteOrder"
    /\ Verb(c) = "DELETE"
    /\ call[c].pc = "sent"
    /\ call[c].requests[1].method = "DELETE"

(***************************************************************************)
(* TradingPair::from_str and as_str                                        *)
(***************************************************************************)
\* C24: from_str is a case-insensitive inverse of as_str.  For a string
\* that spells the string of a variant p in upper and lower case letters the
\* result is Ok(p), and p is the only such variant; for a string that spells
\* no variant the result is Error::Other.  The string as_str returns is
\* itself mapped back to its variant.
C24_FromStrInverse ==
  LET \* the same character, or the same ASCII letter in either case
      SameIgnoringAsciiCase(a, b) ==
        \/ a = b
        \/ a \in DOMAIN ASCII_LOWERCASE /\ ASCII_LOWERCASE[a] = b
        \/ b \in DOMAIN ASCII_LOWERCASE /\ ASCII_LOWERCASE[b] = a
      \* the text spells the string of the variant, ASCII case ignored
      Spells(t, p) ==
        /\ Len(t) = Len(chars[as_str(p)])
        /\ \A i \in 1..Len(t) : SameIgnoringAsciiCase(t[i], chars[as_str(p)][i])
  IN /\ from_str_call.result # None
          => LET s == from_str_call.s
                 result == from_str_call.result[1]
                 spelled == {p \in Variants : Spells(s, p)}
             IN /\ Cardinality(spelled) <= 1
                /\ \A p \in spelled : result = [kind |-> "Ok", value |-> p]
                /\ spelled = {} => result.kind = "Other"
     /\ \A p \in Variants : from_str(chars[as_str(p)]) = [kind |-> "Ok", value |-> p]

\* a mixed-case spelling of ETHEUR was parsed
C24_Witness ==
  /\ from_str_call.s = <<"e", "T", "h", "E", "u", "R">>
  /\ from_str_call.result = Some([kind |-> "Ok", value |-> TradingPair("ETHEUR")])

C26_FailureSkipsPair ==
  /\ [](cli.pc = "exit"
          => /\ cli.result = Some("Ok")
             /\ cli.i = Len(cli.trading_pairs)
             /\ \A j \in 1..Len(cli.trading_pairs) :
                  TradingPair_from_str(Flat(trim(cli.trading_pairs[j]))) = None
                    <=> <<j, "Invalid trading pair">>
                          \in {cli.stderr[k] : k \in 1..Len(cli.stderr)}
             /\ Len(cli.sdk_calls) =
                  Cardinality({j \in 1..Len(cli.trading_pairs) :
                     /\ TradingPair_from_str(Flat(trim(cli.trading_pairs[j]))) # None
                     /\ j <= Len(cli.amounts)
                     /\ cli.amounts[j] > 0}))
  /\ [][(cli.pc \in {"loop", "awaiting"} /\ cli.i < Len(cli.trading_pairs)
           /\ cli' # cli /\ cli'.pc # "awaiting")
          => LET invalid ==
                   /\ cli.pc = "loop"
                   /\ TradingPair_from_str(Flat(trim(cli.trading_pairs[cli.i + 1]))) = None
                 failed == cli.pc = "awaiting" /\ call[1].result[1].kind # "Ok"
             IN /\ cli'.pc = "loop"
                /\ cli'.i = cli.i + 1
                /\ cli'.result = None
                /\ (invalid \/ failed)
                     => /\ Len(cli'.stderr) = Len(cli.stderr) + 1
                        /\ cli'.stderr[Len(cli'.stderr)][1] = cli.i + 1
                        /\ cli'.csv_data = cli.csv_data
                /\ ~(invalid \/ failed) => cli'.stderr = cli.stderr]_vars

\* the run for two trading pairs has ended: the show_rates call for the
\* first returned Error::Api, the call for the second was made after it
\* and its row was collected
C26_Witness ==
  /\ cli.pc = "exit"
  /\ cli.result = Some("Ok")
  /\ cli.sdk_calls = <<TradingPair("BTCEUR"), TradingPair("ETHEUR")>>
  /\ cli.stderr = <<<<1, "Error during showRates", "Api">>>>
  /\ Len(cli.csv_data) = 1
  /\ cli.csv_data[1][2] = "ETHEUR"

(***************************************************************************)
(* The URL that is signed and the URL that is sent, for POST               *)
(***************************************************************************)
\* C27: for every POST call that has sent a request, the URL in the
\* canonical string is, character for character, the URL the request was
\* sent to, whatever the values of the path parameters.
C27_SignedUrlIsSentUrl ==
  \A c \in Calls :
    (HasSent(c) /\ Verb(c) = "POST")
      => call[c].url_for_signature = Url_to_string(call[c].requests[1].url)

(***************************************************************************)
(* The order of the pairs in the body and in the digest, for POST          *)
(***************************************************************************)
\* C28 as stated: for every POST call with two or more body parameters the
\* transmitted body is the very string that was hashed, the pairs in
\* ascending order of the names.
C28_BodyIsHashedString ==
  \A c \in Calls :
    (HasSent(c) /\ Verb(c) = "POST" /\ Cardinality(DOMAIN NonPlaceholderParams(c)) >= 2)
      => /\ call[c].requests[1].body # None
         /\ call[c].md5 = md5_hex(call[c].requests[1].body[1])

\* C28 amended: for every POST call with two or more body parameters the
\* transmitted body and the hashed string encode the same name/value
\* pairs; the hashed string lists them in ascending order of the names, the
\* body in the iteration order of the parameter map, so the body is the
\* hashed string exactly when the map iterates in ascending order.
C28_BodyHasHashedPairs ==
  \A c \in Calls :
    (HasSent(c) /\ Verb(c) = "POST" /\ Cardinality(DOMAIN NonPlaceholderParams(c)) >= 2)
      => LET remaining == NonPlaceholderParams(c)
             Encoded(order) == Flat(serde_urlencoded_to_string(iter(remaining, order)))
         IN /\ call[c].order \in Orders(DOMAIN remaining)
            /\ call[c].requests[1].body = Some(Encoded(call[c].order))
            /\ call[c].md5 = md5_hex(Encoded(Ascending(DOMAIN remaining)))
            /\ call[c].md5 = md5_hex(call[c].requests[1].body[1])
                 <=> call[c].order = Ascending(DOMAIN remaining)

\* createOrder was sent with the map iterating type before price: the body
\* is type=buy&price=100.00, the hashed string price=100.00&type=buy
C28_Witness ==
  \E c \in Calls :
    /\ HasSent(c)
    /\ call[c].method_name = "createOrder"
    /\ call[c].order = <<"type", "price">>
    /\ call[c].requests[1].body = Some("type=buy&price=100.00")
    /\ call[c].md5 = "md5(price=100.00&type=buy)"

(***************************************************************************)
(* The API secret                                                          *)
(***************************************************************************)
\* C29: the API secret reaches a sent request only as the key of the HMAC
\* in the X-API-SIGNATURE header.  A client that differs from this one in
\* nothing but api_secret, making the same call with the same iteration
\* order, nonce and response, sends a request with the same verb, URL, body
\* and headers other than X-API-SIGNATURE and returns the same result, and
\* its signature is the HMAC of the same canonical string under its own
\* secret; the text of the secret (which no input of the caller contains)
\* stands nowhere in the URL, the body or a header of the request.
C29_SecretOnlyInSignature ==
  \A c \in Calls :
    HasSent(c)
      => LET request == call[c].requests[1]
             other_secret == "OTHER" \o api_credentials.api_secret
             other == RunAlone([api_credentials EXCEPT !.api_secret = other_secret], call[c])
             Plain == (DOMAIN request.headers) \ {"X-API-SIGNATURE"}
             Contains(s, sub) ==
               \E i \in 1..(Len(s) - Len(sub) + 1) : SubSeq(s, i, i + Len(sub) - 1) = sub
             Leaks(s) == Contains(s, api_credentials.api_secret)
         IN /\ Len(other.requests) = 1
            /\ other.requests[1].method = request.method
            /\ other.requests[1].url = request.url
            /\ other.requests[1].body = request.body
            /\ DOMAIN other.requests[1].headers = DOMAIN request.headers
            /\ \A h \in Plain : other.requests[1].headers[h] = request.headers[h]
            /\ {"X-API-KEY", "X-API-NONCE"} \subseteq Plain
            /\ request.headers["X-API-SIGNATURE"]
                 = hmac_sha256_hex(api_credentials.api_secret, call[c].hmac_data)
            /\ other.requests[1].headers["X-API-SIGNATURE"]
                 = hmac_sha256_hex(other_secret, call[c].hmac_data)
            /\ HasResponse(c) => other.result = call[c].result
            /\ ~Leaks(Url_to_string(request.url))
            /\ request.body # None => ~Leaks(request.body[1])
            /\ \A h \in Plain : ~Leaks(request.headers[h])
            /\ ~Leaks(call[c].hmac_data)

\* a createOrder call with a body was sent and got its result
C29_Witness ==
  \E c \in Calls :
    /\ HasSent(c)
    /\ call[c].method_name = "createOrder"
    /\ call[c].requests[1].body = Some("price=100.00&type=buy")
    /\ call[c].requests[1].headers["X-API-SIGNATURE"].key = "SECRET"
    /\ HasResponse(c)
    /\ call[c].result # None

(***************************************************************************)
(* Parameters the registry does not list                                   *)
(***************************************************************************)
\* C30: do_request checks no parameter against the parameters,
\* trading_pair_parameter, currency_parameter or id_parameter of the registry
\* entry.  A call of a registered method ends before its request only for
\* a placeholder without value, the clock or the API key, never for a
\* parameter; and every parameter that is no placeholder, listed by the
\* entry or not, is sent as its form-encoded name=value pair, in the query
\* string for GET and DELETE and in the body for POST, where the pair also
\* stands in the string that is digested.
C30_UnlistedParametersSent ==
  \A c \in Calls :
    (Started(c) /\ Registered(c))
      => LET remaining == NonPlaceholderParams(c)
             Pair(n) == n \o "=" \o Flat(FormEncodeText(remaining[n]))
             Contains(s, sub) ==
               \E i \in 1..(Len(s) - Len(sub) + 1) : SubSeq(s, i, i + Len(sub) - 1) = sub
         IN /\ (call[c].pc = "done" /\ ~HasSent(c))
                 => /\ call[c].result[1].kind
                         \in {"MissingPathParameter", "SystemTime", "InvalidHeaderValue"}
                    /\ call[c].result[1].kind = "MissingPathParameter"
                         <=> MissingPlaceholders(c) # {}
            /\ HasSent(c)
                 => \A n \in DOMAIN remaining :
                      IF Verb(c) = "POST"
                      THEN /\ call[c].requests[1].body # None
                           /\ Contains(call[c].requests[1].body[1], Pair(n))
                           /\ Contains(call[c].md5, Pair(n))
                      ELSE /\ call[c].requests[1].url.query # None
                           /\ Contains(call[c].requests[1].url.query[1], Pair(n))

\* createOrder was sent with order_id, which its registry entry names
\* nowhere, next to the listed type: both are in the body and the digest
C30_Witness ==
  \E c \in Calls :
    /\ HasSent(c)
    /\ call[c].method_name = "createOrder"
    /\ "order_id" \notin
         {METHOD_SETTINGS["createOrder"].parameters[i] :
            i \in 1..Len(METHOD_SETTINGS["createOrder"].parameters)}
    /\ METHOD_SETTINGS["createOrder"].id_parameter = None
    /\ call[c].requests[1].body = Some("type=buy&order_id=42")
    /\ call[c].md5 = "md5(order_id=42&type=buy)"

====
